---- MODULE Spec2Model ----
(***************************************************************************)
(* Model of the ubistormer EventStorming engine:                           *)
(*   - the typed graph store (GraphologyAdapter on a graphology Graph      *)
(*     built with type 'directed' and multi false) and the validating      *)
(*     EventStormingAPI on top of it (src/src/graph/graphology-adapter.ts);*)
(*   - the remote operation bridge that correlates requests and responses  *)
(*     over WebSocket channels (src/src/api/eventstorming-bridge-plugin.ts)*)
(*                                                                         *)
(* Strings that the code concatenates, trims or matches (node ids, node    *)
(* labels, edge labels, edge keys) are sequences of one-character strings, *)
(* so that concatenation and trimming are computed and not assumed.        *)
(* Node types are only compared for equality and stay TLA+ strings.        *)
(***************************************************************************)
EXTENDS Integers, Sequences, FiniteSets, TLC

VARIABLES
    nodes,      \* graphology node map: node key -> node attributes
    edges,      \* graphology edge map: edge key -> edge attributes
    result,     \* outcome of the last engine call: op, status, argument (and, for
                \* a removeNode that succeeded, how many edges the node had)
    updates,    \* number of updateNode calls made so far
    clients,    \* bridge: the clients Map, its sockets in insertion order
    sock,       \* bridge: readyState of each WebSocket
    pending,    \* bridge: pendingRequests of each socket: requestId -> request
    reqs,       \* bridge: the requests issued so far (promise and timer of each)
    toClient,   \* messages sent to each socket's renderer, not yet handled
    toServer,   \* responses sent by each renderer, not yet received
    now,        \* the millisecond clock read by Date.now()
    graphData,  \* reactive store: the value last published to the subscribers
                \* of graphData
    wsClient    \* the renderer's EventStormingClient: its sockets, its ws field,
                \* reconnectAttempts and the reconnection timers it has set

graphVars == <<nodes, edges, result, updates>>
bridgeVars == <<clients, sock, pending, reqs, toClient, toServer, now>>
vars == <<nodes, edges, result, updates, clients, sock, pending, reqs, toClient, toServer, now,
          graphData, wsClient>>

(***************************************************************************)
(* Bounds of the model.                                                    *)
(***************************************************************************)
MaxUpdates == 1

(***************************************************************************)
(* Character-sequence strings.                                             *)
(***************************************************************************)
Dash == <<"-">>
Blank == <<" ">>
Empty == <<>>

IdA == <<"a">>
IdC == <<"c">>
IdAThenB == <<"a", "-", "t", "h", "e", "n", "-", "b">>
IdBThenC == <<"b", "-", "t", "h", "e", "n", "-", "c">>
IdZ == <<"z">>

LabelL == <<"L">>
LabelM == <<"M">>

\* EdgeLabel, eventstorming-api
Issues == <<"i", "s", "s", "u", "e", "s">>
On == <<"o", "n">>
Then == <<"t", "h", "e", "n">>
If == <<"i", "f">>
IfGuard == <<"i", "f", " ", "g", "u", "a", "r", "d">>
IfPreconditions ==
    <<"i", "f", " ", "p", "r", "e", "c", "o", "n", "d", "i", "t", "i", "o", "n", "s">>
ThenPolicy == <<"t", "h", "e", "n", " ", "(", "p", "o", "l", "i", "c", "y", ")">>
SupportsDecisionFor ==
    <<"s", "u", "p", "p", "o", "r", "t", "s", " ", "d", "e", "c", "i", "s", "i", "o", "n",
      " ", "f", "o", "r">>
MarksPivotal == <<"m", "a", "r", "k", "s", " ", "p", "i", "v", "o", "t", "a", "l">>
\* a label outside the vocabulary (the wire format carries any string)
Triggers == <<"t", "r", "i", "g", "g", "e", "r", "s">>

Whitespace == {" "}

\* String.prototype.trim: strips leading and trailing whitespace
RECURSIVE TrimLeft(_)
TrimLeft(s) ==
    IF s = <<>> THEN s
    ELSE IF Head(s) \in Whitespace THEN TrimLeft(Tail(s)) ELSE s

RECURSIVE TrimRight(_)
TrimRight(s) ==
    IF s = <<>> THEN s
    ELSE IF s[Len(s)] \in Whitespace THEN TrimRight(SubSeq(s, 1, Len(s) - 1)) ELSE s

Trim(s) == TrimRight(TrimLeft(s))

(***************************************************************************)
(* graphology Graph({type: 'directed', multi: false}) primitives.          *)
(***************************************************************************)
GraphMulti == FALSE

GraphHasNode(N, key) == key \in DOMAIN N

GraphHasEdge(E, key) == key \in DOMAIN E

\* an edge from s to t is present (what a non-multi graph refuses to repeat)
GraphLinked(E, s, t) == \E k \in DOMAIN E : E[k].source = s /\ E[k].target = t

\* addEdgeWithKey throws on a used key and, when multi is false, on a pair
\* of endpoints that is already linked in that direction
GraphAddEdgeThrows(E, key, s, t) ==
    \/ GraphHasEdge(E, key)
    \/ (~GraphMulti /\ GraphLinked(E, s, t))

\* faulty variant of GraphDropNodeEdges: only the outgoing edges go with the node
GraphDropNodeEdgesOutOnly(E, key) ==
    [k \in {x \in DOMAIN E : E[x].source # key} |-> E[k]]

\* dropNode removes the node and every edge attached to it
GraphDropNodeEdges(E, key) ==
    [k \in {x \in DOMAIN E : E[x].source # key /\ E[x].target # key} |-> E[k]]

GraphDropNodeNodes(N, key) == [k \in DOMAIN N \ {key} |-> N[k]]

GraphDropEdge(E, key) == [k \in DOMAIN E \ {key} |-> E[k]]

EmptyMap == [k \in {} |-> 0]

(***************************************************************************)
(* GraphologyAdapter.                                                      *)
(***************************************************************************)
\* `${edge.source}-${edge.label}-${edge.target}`
EdgeKey(source, label, target) == source \o Dash \o label \o Dash \o target

\* { ...currentNode, ...updates }
Merge(current, upd) ==
    [f \in DOMAIN current \cup DOMAIN upd |->
        IF f \in DOMAIN upd THEN upd[f] ELSE current[f]]

\* GraphologyAdapter.addNode
AdapterAddNode(N, node) ==
    IF GraphHasNode(N, node.id) THEN N ELSE (node.id :> node) @@ N

\* GraphologyAdapter.updateNode
AdapterUpdateNode(N, nodeId, upd) ==
    IF ~GraphHasNode(N, nodeId) THEN N
    ELSE [N EXCEPT ![nodeId] = Merge(N[nodeId], upd)]

\* GraphologyAdapter.addEdge: "added" (returns true), "false" (returns false),
\* "throws" (graph.addEdgeWithKey throws)
AdapterAddEdgeOutcome(N, E, edge) ==
    LET edgeKey == EdgeKey(edge.source, edge.label, edge.target) IN
    IF GraphHasEdge(E, edgeKey) THEN "false"
    ELSE IF ~GraphHasNode(N, edge.source) \/ ~GraphHasNode(N, edge.target) THEN "false"
    ELSE IF GraphAddEdgeThrows(E, edgeKey, edge.source, edge.target) THEN "throws"
    ELSE "added"

AdapterAddEdge(N, E, edge) ==
    IF AdapterAddEdgeOutcome(N, E, edge) = "added"
    THEN (EdgeKey(edge.source, edge.label, edge.target) :> edge) @@ E
    ELSE E

\* GraphologyAdapter.removeEdge
AdapterRemoveEdgeFound(E, source, target, label) ==
    GraphHasEdge(E, EdgeKey(source, label, target))

AdapterRemoveEdge(E, source, target, label) ==
    IF AdapterRemoveEdgeFound(E, source, target, label)
    THEN GraphDropEdge(E, EdgeKey(source, label, target))
    ELSE E

\* GraphologyAdapter.getNodeEdges
AdapterGetNodeEdges(N, E, nodeId) ==
    IF ~GraphHasNode(N, nodeId) THEN {}
    ELSE {E[k] : k \in {x \in DOMAIN E : E[x].source = nodeId \/ E[x].target = nodeId}}

\* GraphologyAdapter.loadFromEventStormingData, the node loop: graph.addNode
\* throws on a key that is already there and the load stops at that point
RECURSIVE LoadNodes(_, _, _)
LoadNodes(N, seq, i) ==
    IF i > Len(seq) THEN [nodes |-> N, threw |-> FALSE]
    ELSE IF GraphHasNode(N, seq[i].id) THEN [nodes |-> N, threw |-> TRUE]
    ELSE LoadNodes((seq[i].id :> seq[i]) @@ N, seq, i + 1)

\* the edge loop
RECURSIVE LoadEdges(_, _, _, _)
LoadEdges(N, E, seq, i) ==
    IF i > Len(seq) THEN [edges |-> E, threw |-> FALSE]
    ELSE
      LET edge == seq[i]
          edgeKey == EdgeKey(edge.source, edge.label, edge.target) IN
      IF GraphHasNode(N, edge.source) /\ GraphHasNode(N, edge.target)
      THEN IF ~GraphHasEdge(E, edgeKey)
           THEN IF GraphAddEdgeThrows(E, edgeKey, edge.source, edge.target)
                THEN [edges |-> E, threw |-> TRUE]
                ELSE LoadEdges(N, (edgeKey :> edge) @@ E, seq, i + 1)
           ELSE LoadEdges(N, E, seq, i + 1)
      ELSE LoadEdges(N, E, seq, i + 1)

LoadFromEventStormingData(data) ==
    LET ln == LoadNodes(EmptyMap, data.nodes, 1) IN
    IF ln.threw THEN [nodes |-> ln.nodes, edges |-> EmptyMap, threw |-> TRUE]
    ELSE LET le == LoadEdges(ln.nodes, EmptyMap, data.edges, 1) IN
         [nodes |-> ln.nodes, edges |-> le.edges, threw |-> le.threw]

\* GraphologyAdapter.exportToEventStormingData / EventStormingAPI.getGraph
GetGraphNodes == {nodes[k] : k \in DOMAIN nodes}
GetGraphEdges == {edges[k] : k \in DOMAIN edges}

(***************************************************************************)
(* EventStormingAPI: validation.                                           *)
(***************************************************************************)
ValidTypes ==
    {"actor", "command", "aggregate", "event", "viewmodel", "preconditions", "guards",
     "branchinglogic"}

\* EventStormingAPI.validateNode: the errors it pushes
ValidateNodeErrors(node) ==
    (IF node.id = Empty \/ Trim(node.id) = Empty THEN {"Node ID cannot be empty"} ELSE {})
    \cup (IF node.label = Empty \/ Trim(node.label) = Empty
          THEN {"Node label cannot be empty"} ELSE {})
    \cup (IF node.type \notin ValidTypes THEN {"Invalid node type"} ELSE {})

\* the characters of /^[a-z0-9\-_]+$/
KebabChars ==
    {"a", "b", "c", "d", "e", "f", "g", "h", "i", "j", "k", "l", "m", "n", "o", "p", "q",
     "r", "s", "t", "u", "v", "w", "x", "y", "z", "0", "1", "2", "3", "4", "5", "6", "7",
     "8", "9", "-", "_"}

\* /^[a-z0-9\-_]+$/.test(id)
KebabTest(id) == Len(id) > 0 /\ \A i \in 1..Len(id) : id[i] \in KebabChars

\* EventStormingAPI.validateNode: the warnings it pushes
ValidateNodeWarnings(node) ==
    IF node.id # Empty /\ ~KebabTest(node.id)
    THEN {<<"Node ID should use kebab-case format", node.id>>} ELSE {}

\* faulty variant of ValidateNode: an id that is not in kebab case is an error
ValidateNodeStrictId(node) ==
    ValidateNodeErrors(node) = {} /\ ValidateNodeWarnings(node) = {}

ValidateNode(node) == ValidateNodeErrors(node) = {}

\* validCombinations of EventStormingAPI.validateEdge
ValidCombinations ==
    (Issues :> {<<"actor", "command">>})
    @@ (On :> {<<"command", "aggregate">>})
    @@ (Then :> {<<"command", "event">>})
    @@ (If :> {<<"event", "branchinglogic">>})
    @@ (IfGuard :> {<<"command", "guards">>})
    @@ (IfPreconditions :> {<<"command", "preconditions">>})
    @@ (ThenPolicy :> {<<"event", "command">>})
    @@ (SupportsDecisionFor :> {<<"viewmodel", "command">>})
    @@ (MarksPivotal :> {<<"event", "boundary">>})

\* validCombinations[edge.label] is undefined for a label outside the table
\* and validCombs.some(...) then throws a TypeError
ValidateEdgeThrows(edge) == edge.label \notin DOMAIN ValidCombinations

\* EventStormingAPI.validateEdge
ValidateEdge(edge, sourceNode, targetNode) ==
    \E combo \in ValidCombinations[edge.label] :
        combo[1] = sourceNode.type /\ combo[2] = targetNode.type

(***************************************************************************)
(* Inputs of the engine calls.                                             *)
(***************************************************************************)
NodeIds == {IdA, IdC, IdAThenB, IdBThenC}

AddNodeInputs ==
    {[id |-> IdA, label |-> LabelL, type |-> "command"],
     [id |-> IdAThenB, label |-> LabelL, type |-> "command"],
     [id |-> IdC, label |-> LabelL, type |-> "event"],
     [id |-> IdBThenC, label |-> LabelL, type |-> "event"],
     [id |-> IdC, label |-> Blank, type |-> "event"],
     [id |-> IdC, label |-> LabelL, type |-> "boundary"]}

\* Partial<EventStormingNode> of updateNode (the PUT body is any JSON object)
UpdateInputs ==
    {[type |-> "event"], [type |-> "command"], [label |-> Blank], [id |-> IdZ]}

EdgeInputs ==
    {[source |-> IdA, label |-> Then, target |-> IdBThenC],
     [source |-> IdAThenB, label |-> Then, target |-> IdC],
     [source |-> IdA, label |-> Then, target |-> IdC],
     [source |-> IdC, label |-> ThenPolicy, target |-> IdA],
     [source |-> IdA, label |-> ThenPolicy, target |-> IdC],
     [source |-> IdA, label |-> Triggers, target |-> IdC]}

SnapA == [id |-> IdA, label |-> LabelL, type |-> "command"]
SnapC == [id |-> IdC, label |-> LabelL, type |-> "event"]
SnapBad == [id |-> IdC, label |-> Empty, type |-> "boundary"]
SnapThen == [source |-> IdA, label |-> Then, target |-> IdC]
SnapOn == [source |-> IdA, label |-> On, target |-> IdC]
SnapDangling == [source |-> IdA, label |-> Then, target |-> IdBThenC]

\* snapshots { nodes[], edges[] } handed to loadGraph
Snapshots ==
    {[nodes |-> <<>>, edges |-> <<>>],
     [nodes |-> <<SnapA, SnapC>>, edges |-> <<SnapThen>>],
     [nodes |-> <<SnapA, SnapA>>, edges |-> <<>>],
     [nodes |-> <<SnapA, SnapBad>>, edges |-> <<>>],
     [nodes |-> <<SnapA, SnapC>>, edges |-> <<SnapThen, SnapOn>>],
     [nodes |-> <<SnapA, SnapC>>, edges |-> <<SnapThen, SnapThen>>],
     [nodes |-> <<SnapA, SnapC>>, edges |-> <<SnapDangling, SnapOn>>]}

Result(op, status, arg) == [op |-> op, status |-> status, arg |-> arg]

(***************************************************************************)
(* EventStormingAPI: the mutations.                                        *)
(***************************************************************************)
\* EventStormingAPI.addNode
ApiAddNode(node) ==
    /\ IF GraphHasNode(nodes, node.id)
       THEN /\ result' = Result("addNode", "invalid", node) @@ [warnings |-> {}]
            /\ UNCHANGED <<nodes, edges>>
       ELSE IF ~ValidateNode(node)
       THEN /\ result' = Result("addNode", "invalid", node)
                             @@ [warnings |-> ValidateNodeWarnings(node)]
            /\ UNCHANGED <<nodes, edges>>
       ELSE /\ nodes' = AdapterAddNode(nodes, node)
            /\ result' = Result("addNode", "ok", node)
                             @@ [warnings |-> ValidateNodeWarnings(node)]
            /\ UNCHANGED edges
    /\ UNCHANGED updates

\* addNode called on the engine directly: nothing is published
AddNode(node) ==
    /\ ApiAddNode(node)
    /\ UNCHANGED <<bridgeVars, graphData, wsClient>>

\* faulty variant of UpdateNode: the merge is stored before it is validated
UpdateNodeMutateFirst(id, upd) ==
    /\ updates < MaxUpdates
    /\ updates' = updates + 1
    /\ IF ~GraphHasNode(nodes, id)
       THEN /\ result' = Result("updateNode", "invalid", <<id, upd>>)
            /\ UNCHANGED <<nodes, edges>>
       ELSE /\ nodes' = AdapterUpdateNode(nodes, id, upd)
            /\ result' = Result("updateNode",
                                IF ValidateNode(Merge(nodes[id], upd)) THEN "ok" ELSE "invalid",
                                <<id, upd>>)
            /\ UNCHANGED edges
    /\ UNCHANGED <<bridgeVars, graphData, wsClient>>

\* EventStormingAPI.updateNode
ApiUpdateNode(id, upd) ==
    /\ updates < MaxUpdates
    /\ updates' = updates + 1
    /\ IF ~GraphHasNode(nodes, id)
       THEN /\ result' = Result("updateNode", "invalid", <<id, upd>>)
            /\ UNCHANGED <<nodes, edges>>
       ELSE IF ~ValidateNode(Merge(nodes[id], upd))
       THEN /\ result' = Result("updateNode", "invalid", <<id, upd>>)
            /\ UNCHANGED <<nodes, edges>>
       ELSE /\ nodes' = AdapterUpdateNode(nodes, id, upd)
            /\ result' = Result("updateNode", "ok", <<id, upd>>)
            /\ UNCHANGED edges

\* updateNode called on the engine directly: nothing is published
UpdateNode(id, upd) ==
    /\ ApiUpdateNode(id, upd)
    /\ UNCHANGED <<bridgeVars, graphData, wsClient>>

\* EventStormingAPI.removeNode
ApiRemoveNode(id) ==
    /\ IF ~GraphHasNode(nodes, id)
       THEN /\ result' = Result("removeNode", "invalid", id)
            /\ UNCHANGED <<nodes, edges>>
       ELSE /\ nodes' = GraphDropNodeNodes(nodes, id)
            /\ edges' = GraphDropNodeEdges(edges, id)
            /\ result' = Result("removeNode", "ok", id)
                              @@ [incident |-> Cardinality(AdapterGetNodeEdges(nodes, edges, id))]
    /\ UNCHANGED updates

\* removeNode called on the engine directly: nothing is published
RemoveNode(id) ==
    /\ ApiRemoveNode(id)
    /\ UNCHANGED <<bridgeVars, graphData, wsClient>>

\* EventStormingAPI.addEdge
ApiAddEdge(edge) ==
    /\ IF ~GraphHasNode(nodes, edge.source) \/ ~GraphHasNode(nodes, edge.target)
       THEN /\ result' = Result("addEdge", "invalid", edge)
            /\ UNCHANGED edges
       ELSE IF ValidateEdgeThrows(edge)
       THEN /\ result' = Result("addEdge", "threw", edge)
            /\ UNCHANGED edges
       ELSE IF ~ValidateEdge(edge, nodes[edge.source], nodes[edge.target])
       THEN /\ result' = Result("addEdge", "invalid", edge)
            /\ UNCHANGED edges
       ELSE LET outcome == AdapterAddEdgeOutcome(nodes, edges, edge) IN
            /\ edges' = AdapterAddEdge(nodes, edges, edge)
            /\ result' = Result("addEdge",
                                CASE outcome = "added" -> "ok"
                                  [] outcome = "false" -> "invalid"
                                  [] outcome = "throws" -> "threw",
                                edge)
    /\ UNCHANGED <<nodes, updates>>

\* addEdge called on the engine directly: nothing is published
AddEdge(edge) ==
    /\ ApiAddEdge(edge)
    /\ UNCHANGED <<bridgeVars, graphData, wsClient>>

\* EventStormingAPI.removeEdge
RemoveEdge(source, target, label) ==
    /\ edges' = AdapterRemoveEdge(edges, source, target, label)
    /\ result' = Result("removeEdge",
                        IF AdapterRemoveEdgeFound(edges, source, target, label)
                        THEN "ok" ELSE "invalid",
                        [source |-> source, label |-> label, target |-> target])
    /\ UNCHANGED <<nodes, updates>>
    /\ UNCHANGED <<bridgeVars, graphData, wsClient>>

\* EventStormingAPI.loadGraph: no validation and no try/catch
ApiLoadGraph(data) ==
    /\ LET loaded == LoadFromEventStormingData(data) IN
       /\ nodes' = loaded.nodes
       /\ edges' = loaded.edges
       /\ result' = Result("loadGraph", IF loaded.threw THEN "threw" ELSE "ok", data)
    /\ UNCHANGED updates

\* loadGraph called on the engine directly: nothing is published
LoadGraph(data) ==
    /\ ApiLoadGraph(data)
    /\ UNCHANGED <<bridgeVars, graphData, wsClient>>

\* EventStormingAPI.updateNodeExtendedFields: the fields go to
\* GraphologyAdapter.updateNode without validation
UpdateNodeExtendedFields(nodeId, fields) ==
    /\ IF ~GraphHasNode(nodes, nodeId)
       THEN /\ result' = Result("updateNodeExtendedFields", "invalid", <<nodeId, fields>>)
            /\ UNCHANGED nodes
       ELSE /\ nodes' = AdapterUpdateNode(nodes, nodeId, fields)
            /\ result' = Result("updateNodeExtendedFields", "ok", <<nodeId, fields>>)
    /\ UNCHANGED <<edges, updates>>
    /\ UNCHANGED <<bridgeVars, graphData, wsClient>>

(***************************************************************************)
(* EventStormingAPI: validateGraph.                                        *)
(***************************************************************************)
\* GraphologyAdapter.getNodesByType: the attributes of the nodes of a type
GetNodesByType(N, type) == {N[k] : k \in {x \in DOMAIN N : N[x].type = type}}

\* connectedNodeIds of validateGraph
ConnectedNodeIds(E) == {E[k].source : k \in DOMAIN E} \cup {E[k].target : k \in DOMAIN E}

\* the commands validateGraph pushes an error for and the events it pushes
\* a warning for, each by the key it is stored under
ValidateGraphEventless(N, E) ==
    {c \in DOMAIN N : /\ N[c].type = "command"
                      /\ ~\E k \in DOMAIN E : E[k].source = N[c].id /\ E[k].label = Then}
ValidateGraphUnproduced(N, E) ==
    {v \in DOMAIN N : /\ N[v].type = "event"
                      /\ ~\E k \in DOMAIN E : E[k].target = N[v].id /\ E[k].label = Then}

\* faulty variant of ValidateGraph: an orphaned node is an error
ValidateGraphOrphanIsError(N, E) ==
    LET orphaned == {N[k] : k \in {x \in DOMAIN N : N[x].id \notin ConnectedNodeIds(E)}}
        eventless == {c \in GetNodesByType(N, "command") :
                        ~\E k \in DOMAIN E : E[k].source = c.id /\ E[k].label = Then}
        errors == {<<"Command must generate at least one event", c>> : c \in eventless}
                  \cup (IF orphaned # {} THEN {<<"Orphaned nodes found", orphaned>>} ELSE {})
    IN  [isValid |-> errors = {}, errors |-> errors, warnings |-> {}]

\* EventStormingAPI.validateGraph
ValidateGraph(N, E) ==
    LET orphaned == {N[k] : k \in {x \in DOMAIN N : N[x].id \notin ConnectedNodeIds(E)}}
        eventless == {c \in GetNodesByType(N, "command") :
                        ~\E k \in DOMAIN E : E[k].source = c.id /\ E[k].label = Then}
        unproduced == {v \in GetNodesByType(N, "event") :
                        ~\E k \in DOMAIN E : E[k].target = v.id /\ E[k].label = Then}
        errors == {<<"Command must generate at least one event", c>> : c \in eventless}
        warnings == (IF orphaned # {} THEN {<<"Orphaned nodes found", orphaned>>} ELSE {})
                    \cup {<<"Event is not generated by any command", v>> : v \in unproduced}
    IN  [isValid |-> errors = {}, errors |-> errors, warnings |-> warnings]

(***************************************************************************)
(* EventStormingAPI: createCommandFlow.                                    *)
(***************************************************************************)
\* EventStormingAPI.addNode as a function of the node map
AddNodeResult(N, node) ==
    IF GraphHasNode(N, node.id) \/ ~ValidateNode(node)
    THEN [nodes |-> N, status |-> "invalid"]
    ELSE [nodes |-> AdapterAddNode(N, node), status |-> "ok"]

\* EventStormingAPI.addEdge as a function of the node and edge maps
AddEdgeResult(N, E, edge) ==
    IF ~GraphHasNode(N, edge.source) \/ ~GraphHasNode(N, edge.target)
    THEN [edges |-> E, status |-> "invalid"]
    ELSE IF ValidateEdgeThrows(edge) THEN [edges |-> E, status |-> "threw"]
    ELSE IF ~ValidateEdge(edge, N[edge.source], N[edge.target])
    THEN [edges |-> E, status |-> "invalid"]
    ELSE LET outcome == AdapterAddEdgeOutcome(N, E, edge) IN
         [edges |-> AdapterAddEdge(N, E, edge),
          status |-> CASE outcome = "added" -> "ok"
                       [] outcome = "false" -> "invalid"
                       [] outcome = "throws" -> "threw"]

\* the nodes and edges createCommandFlow asks for
FlowNodes(params) ==
    <<[id |-> params.actorId, label |-> params.actorLabel, type |-> "actor",
       description |-> params.description],
      [id |-> params.commandId, label |-> params.commandLabel, type |-> "command",
       description |-> params.description],
      [id |-> params.aggregateId, label |-> params.aggregateLabel, type |-> "aggregate",
       description |-> params.description],
      [id |-> params.eventId, label |-> params.eventLabel, type |-> "event",
       description |-> params.description]>>

FlowEdges(params) ==
    <<[source |-> params.actorId, target |-> params.commandId, label |-> Issues],
      [source |-> params.commandId, target |-> params.aggregateId, label |-> On],
      [source |-> params.commandId, target |-> params.eventId, label |-> Then]>>

\* the four addNode calls, one after the other
RECURSIVE FlowAddNodes(_, _, _)
FlowAddNodes(N, seq, i) ==
    IF i > Len(seq) THEN [nodes |-> N, status |-> "ok"]
    ELSE LET this == AddNodeResult(N, seq[i])
             rest == FlowAddNodes(this.nodes, seq, i + 1) IN
         [nodes |-> rest.nodes,
          status |-> IF this.status = "ok" THEN rest.status ELSE "invalid"]

\* the three addEdge calls, one after the other; one that throws ends the call
RECURSIVE FlowAddEdges(_, _, _, _)
FlowAddEdges(N, E, seq, i) ==
    IF i > Len(seq) THEN [edges |-> E, status |-> "ok"]
    ELSE LET this == AddEdgeResult(N, E, seq[i]) IN
         IF this.status = "threw" THEN [edges |-> E, status |-> "threw"]
         ELSE LET rest == FlowAddEdges(N, this.edges, seq, i + 1) IN
              [edges |-> rest.edges,
               status |-> IF rest.status = "threw" THEN "threw"
                          ELSE IF this.status = "ok" THEN rest.status ELSE "invalid"]

\* EventStormingAPI.createCommandFlow: isValid is errors.length === 0 over
\* the seven results
ApiCreateCommandFlow(params) ==
    /\ LET added == FlowAddNodes(nodes, FlowNodes(params), 1)
           linked == FlowAddEdges(added.nodes, edges, FlowEdges(params), 1) IN
       /\ nodes' = added.nodes
       /\ edges' = linked.edges
       /\ result' = Result("createCommandFlow",
                           IF linked.status = "threw" THEN "threw"
                           ELSE IF added.status = "ok" /\ linked.status = "ok" THEN "ok"
                           ELSE "invalid",
                           params)
    /\ UNCHANGED updates

\* createCommandFlow called on the engine directly: nothing is published
CreateCommandFlow(params) ==
    /\ ApiCreateCommandFlow(params)
    /\ UNCHANGED <<bridgeVars, graphData, wsClient>>

\* the loop of addCommandGuards and addCommandPreconditions: for each item
\* an addNode of the type and an addEdge of the label from the command; an
\* addEdge that throws ends the call
RECURSIVE AddCommandItems(_, _, _, _, _, _, _)
AddCommandItems(N, E, commandId, items, i, type, label) ==
    IF i > Len(items) THEN [nodes |-> N, edges |-> E, status |-> "ok"]
    ELSE LET added == AddNodeResult(N, [id |-> items[i].id, label |-> items[i].label,
                                        type |-> type,
                                        description |-> items[i].description])
             linked == AddEdgeResult(added.nodes, E,
                                     [source |-> commandId, target |-> items[i].id,
                                      label |-> label]) IN
         IF linked.status = "threw"
         THEN [nodes |-> added.nodes, edges |-> E, status |-> "threw"]
         ELSE LET rest == AddCommandItems(added.nodes, linked.edges, commandId, items,
                                          i + 1, type, label) IN
              [nodes |-> rest.nodes, edges |-> rest.edges,
               status |-> IF rest.status = "threw" THEN "threw"
                          ELSE IF added.status = "ok" /\ linked.status = "ok"
                               THEN rest.status ELSE "invalid"]

\* EventStormingAPI.addCommandGuards
ApiAddCommandGuards(commandId, guards) ==
    /\ LET done == AddCommandItems(nodes, edges, commandId, guards, 1, "guards", IfGuard) IN
       /\ nodes' = done.nodes
       /\ edges' = done.edges
       /\ result' = Result("addCommandGuards", done.status, <<commandId, guards>>)
    /\ UNCHANGED updates

\* addCommandGuards called on the engine directly: nothing is published
AddCommandGuards(commandId, guards) ==
    /\ ApiAddCommandGuards(commandId, guards)
    /\ UNCHANGED <<bridgeVars, graphData, wsClient>>

\* EventStormingAPI.addCommandPreconditions
ApiAddCommandPreconditions(commandId, preconditions) ==
    /\ LET done == AddCommandItems(nodes, edges, commandId, preconditions, 1,
                                   "preconditions", IfPreconditions) IN
       /\ nodes' = done.nodes
       /\ edges' = done.edges
       /\ result' = Result("addCommandPreconditions", done.status,
                           <<commandId, preconditions>>)
    /\ UNCHANGED updates

\* addCommandPreconditions called on the engine directly: nothing is published
AddCommandPreconditions(commandId, preconditions) ==
    /\ ApiAddCommandPreconditions(commandId, preconditions)
    /\ UNCHANGED <<bridgeVars, graphData, wsClient>>

(***************************************************************************)
(* EventStormingAPI: export and import.                                    *)
(***************************************************************************)
\* the value of a property that is set to undefined
Undefined == <<"undefined">>

IsUndefined(node, f) == f # "type" /\ node[f] = Undefined

\* JSON.parse(JSON.stringify(node)): a property whose value is undefined is
\* left out of the text
JsonNode(node) == [f \in {g \in DOMAIN node : ~IsUndefined(node, g)} |-> node[f]]

\* the orders in which forEachNode / forEachEdge can visit the keys
RECURSIVE Orders(_)
Orders(S) ==
    IF S = {} THEN {<<>>}
    ELSE UNION {{<<x>> \o rest : rest \in Orders(S \ {x})} : x \in S}

\* EventStormingAPI.exportToJSON read back by JSON.parse
ExportToJSON(nodeOrder, edgeOrder) ==
    [nodes |-> [i \in 1..Len(nodeOrder) |-> JsonNode(nodes[nodeOrder[i]])],
     edges |-> [i \in 1..Len(edgeOrder) |-> edges[edgeOrder[i]]]]

\* EventStormingAPI.importFromJSON(exportToJSON()): the text parses and has
\* both arrays; what loadFromEventStormingData throws is caught and
\* reported as isValid=false
ImportExported(nodeOrder, edgeOrder) ==
    /\ LET loaded == LoadFromEventStormingData(ExportToJSON(nodeOrder, edgeOrder)) IN
       /\ nodes' = loaded.nodes
       /\ edges' = loaded.edges
       /\ result' = Result("importFromJSON", IF loaded.threw THEN "invalid" ELSE "ok",
                           <<Len(nodeOrder), Len(edgeOrder)>>)
    /\ UNCHANGED updates
    /\ UNCHANGED <<bridgeVars, graphData, wsClient>>

\* EventStormingAPI.importFromJSON: json.parses tells whether JSON.parse
\* returns, json.data is what it returns; what loadFromEventStormingData
\* throws is caught and reported as isValid=false
ImportFromJSON(json) ==
    /\ IF ~json.parses
       THEN /\ result' = Result("importFromJSON", "invalid", json)
            /\ UNCHANGED <<nodes, edges>>
       ELSE IF "nodes" \notin DOMAIN json.data \/ "edges" \notin DOMAIN json.data
       THEN /\ result' = Result("importFromJSON", "invalid", json)
            /\ UNCHANGED <<nodes, edges>>
       ELSE LET loaded == LoadFromEventStormingData(json.data) IN
            /\ nodes' = loaded.nodes
            /\ edges' = loaded.edges
            /\ result' = Result("importFromJSON",
                                IF loaded.threw THEN "invalid" ELSE "ok", json)
    /\ UNCHANGED updates
    /\ UNCHANGED <<bridgeVars, graphData, wsClient>>

(***************************************************************************)
(* GraphologyAdapter: the graph algorithms.                                *)
(***************************************************************************)
\* the keys that graph.forEachOutNeighbor(key, ...) visits, each once
GraphOutNeighbors(E, key) == {E[k].target : k \in {x \in DOMAIN E : E[x].source = key}}

\* the ways forEachOutNeighbor can order the out-neighbours of every node:
\* for each key one sequence of its out-neighbours
NeighborOrders(N, E) ==
    {out \in [DOMAIN N -> UNION {Orders(GraphOutNeighbors(E, k)) : k \in DOMAIN N}] :
        \A k \in DOMAIN N : out[k] \in Orders(GraphOutNeighbors(E, k))}

\* Array.prototype.indexOf on a path that holds the element
PathIndexOf(path, x) ==
    CHOOSE i \in 1..Len(path) : path[i] = x /\ \A j \in 1..(i - 1) : path[j] # x

\* GraphologyAdapter.detectCycles: dfs(nodeId) and its loop over the
\* out-neighbours; st holds visited, recStack, path and cycles
RECURSIVE CyclesDfs(_, _, _)
RECURSIVE CyclesEachNeighbor(_, _, _, _)
CyclesDfs(out, nodeId, st) ==
    LET entered == [st EXCEPT !.visited = @ \cup {nodeId},
                              !.recStack = @ \cup {nodeId},
                              !.path = Append(@, nodeId)]
        done == CyclesEachNeighbor(out, out[nodeId], 1, entered) IN
    [done EXCEPT !.recStack = @ \ {nodeId},
                 !.path = SubSeq(@, 1, Len(@) - 1)]

CyclesEachNeighbor(out, nbrs, i, st) ==
    IF i > Len(nbrs) THEN st
    ELSE
      LET neighbor == nbrs[i] IN
      IF neighbor \notin st.visited
      THEN CyclesEachNeighbor(out, nbrs, i + 1, CyclesDfs(out, neighbor, st))
      ELSE IF neighbor \in st.recStack
           THEN LET cycleStart == PathIndexOf(st.path, neighbor)
                    cycle == SubSeq(st.path, cycleStart, Len(st.path)) IN
                CyclesEachNeighbor(out, nbrs, i + 1,
                                   [st EXCEPT !.cycles = Append(@, Append(cycle, neighbor))])
           ELSE CyclesEachNeighbor(out, nbrs, i + 1, st)

\* the forEachNode loop of detectCycles
RECURSIVE CyclesEachNode(_, _, _, _)
CyclesEachNode(out, nodeOrder, i, st) ==
    IF i > Len(nodeOrder) THEN st
    ELSE IF nodeOrder[i] \notin st.visited
         THEN CyclesEachNode(out, nodeOrder, i + 1, CyclesDfs(out, nodeOrder[i], st))
         ELSE CyclesEachNode(out, nodeOrder, i + 1, st)

\* faulty variant of DetectCyclesOf: only the first node of the graph is a root
DetectCyclesFirstRootOnly(nodeOrder, out) ==
    CyclesEachNode(out, SubSeq(nodeOrder, 1, 1), 1,
                   [visited |-> {}, recStack |-> {}, path |-> <<>>, cycles |-> <<>>]).cycles

DetectCyclesOf(nodeOrder, out) ==
    CyclesEachNode(out, nodeOrder, 1,
                   [visited |-> {}, recStack |-> {}, path |-> <<>>, cycles |-> <<>>]).cycles

\* GraphologyAdapter.detectCycles / EventStormingAPI.detectCircularDependencies
DetectCycles(nodeOrder, out) ==
    /\ result' = Result("detectCycles", "ok", DetectCyclesOf(nodeOrder, out))
    /\ UNCHANGED <<nodes, edges, updates>>
    /\ UNCHANGED <<bridgeVars, graphData, wsClient>>

\* Set.prototype.add on a Set kept in insertion order
SetAdd(seq, x) == IF \E i \in 1..Len(seq) : seq[i] = x THEN seq ELSE Append(seq, x)

\* GraphologyAdapter.getImpactAnalysis, the breadth-first while loop; it
\* returns allReachable
RECURSIVE ImpactBfs(_, _, _, _)
ImpactBfs(out, queue, visited, allReachable) ==
    IF queue = <<>> THEN allReachable
    ELSE
      LET current == Head(queue) IN
      IF current \in visited THEN ImpactBfs(out, Tail(queue), visited, allReachable)
      ELSE LET seen == visited \cup {current}
               pushed == SelectSeq(out[current], LAMBDA neighbor : neighbor \notin seen) IN
           ImpactBfs(out, Tail(queue) \o pushed, seen, SetAdd(allReachable, current))

GetImpactAnalysisOf(N, out, nodeId) ==
    IF ~GraphHasNode(N, nodeId)
    THEN [directImpact |-> <<>>, indirectImpact |-> <<>>, totalReach |-> 0]
    ELSE
      LET directImpact == [i \in 1..Len(out[nodeId]) |-> N[out[nodeId][i]]]
          allReachable == ImpactBfs(out, out[nodeId], {nodeId}, out[nodeId])
          indirectIds == SelectSeq(allReachable, LAMBDA reachableId :
                            ~\E i \in 1..Len(directImpact) : directImpact[i].id = reachableId) IN
      [directImpact |-> directImpact,
       indirectImpact |-> [i \in 1..Len(indirectIds) |-> N[indirectIds[i]]],
       totalReach |-> Len(allReachable)]

\* GraphologyAdapter.getImpactAnalysis(nodeId)
GetImpactAnalysis(nodeId, out) ==
    /\ result' = Result("getImpactAnalysis", "ok",
                        [nodeId |-> nodeId, returned |-> GetImpactAnalysisOf(nodes, out, nodeId)])
    /\ UNCHANGED <<nodes, edges, updates>>
    /\ UNCHANGED <<bridgeVars, graphData, wsClient>>

\* GraphologyAdapter.findAllPaths: dfs(currentId, path) and its loop over
\* the out-neighbours; st holds paths and visited
RECURSIVE PathsDfs(_, _, _, _, _, _)
RECURSIVE PathsEachNeighbor(_, _, _, _, _, _, _)
PathsDfs(out, targetId, maxLength, currentId, path, st) ==
    IF Len(path) > maxLength THEN st
    ELSE IF currentId = targetId
         THEN [st EXCEPT !.paths = Append(@, Append(path, currentId))]
         ELSE IF currentId \in st.visited THEN st
              ELSE LET entered == [st EXCEPT !.visited = @ \cup {currentId}]
                       done == PathsEachNeighbor(out, targetId, maxLength, out[currentId], 1,
                                                 Append(path, currentId), entered) IN
                   [done EXCEPT !.visited = @ \ {currentId}]

PathsEachNeighbor(out, targetId, maxLength, nbrs, i, path, st) ==
    IF i > Len(nbrs) THEN st
    ELSE PathsEachNeighbor(out, targetId, maxLength, nbrs, i + 1, path,
                           PathsDfs(out, targetId, maxLength, nbrs[i], path, st))

\* the maxLength of a call that gives none
DefaultMaxLength == 10

\* faulty variant of FindAllPathsOf: the source itself counts against maxLength
FindAllPathsOneShort(N, out, sourceId, targetId, maxLength) ==
    IF ~GraphHasNode(N, sourceId) \/ ~GraphHasNode(N, targetId) THEN <<>>
    ELSE PathsDfs(out, targetId, maxLength - 1, sourceId, <<>>,
                  [paths |-> <<>>, visited |-> {}]).paths

FindAllPathsOf(N, out, sourceId, targetId, maxLength) ==
    IF ~GraphHasNode(N, sourceId) \/ ~GraphHasNode(N, targetId) THEN <<>>
    ELSE PathsDfs(out, targetId, maxLength, sourceId, <<>>,
                  [paths |-> <<>>, visited |-> {}]).paths

\* GraphologyAdapter.findAllPaths(sourceId, targetId, maxLength)
FindAllPaths(sourceId, targetId, maxLength, out) ==
    /\ result' = Result("findAllPaths", "ok",
                        [sourceId |-> sourceId, targetId |-> targetId, maxLength |-> maxLength,
                         returned |-> FindAllPathsOf(nodes, out, sourceId, targetId, maxLength)])
    /\ UNCHANGED <<nodes, edges, updates>>
    /\ UNCHANGED <<bridgeVars, graphData, wsClient>>

(***************************************************************************)
(* EventStormingAPI: getCommandExecutionPaths.                             *)
(***************************************************************************)
UpperCase == <<"A", "B", "C", "D", "E", "F", "G", "H", "I", "J", "K", "L", "M",
               "N", "O", "P", "Q", "R", "S", "T", "U", "V", "W", "X", "Y", "Z">>
LowerCase == <<"a", "b", "c", "d", "e", "f", "g", "h", "i", "j", "k", "l", "m",
               "n", "o", "p", "q", "r", "s", "t", "u", "v", "w", "x", "y", "z">>

\* String.prototype.toLowerCase
ToLowerCase(s) ==
    [i \in 1..Len(s) |->
        IF \E j \in 1..Len(UpperCase) : UpperCase[j] = s[i]
        THEN LowerCase[CHOOSE j \in 1..Len(UpperCase) : UpperCase[j] = s[i]]
        ELSE s[i]]

\* String.prototype.includes
Includes(s, sub) == \E i \in 1..(Len(s) - Len(sub) + 1) : SubSeq(s, i, i + Len(sub) - 1) = sub

WordError == <<"e", "r", "r", "o", "r">>
WordFailed == <<"f", "a", "i", "l", "e", "d">>
\* " -> " stands for the arrow of the description text
Arrow == <<" ", "-", ">", " ">>
PolicyActions == <<"P", "o", "l", "i", "c", "y", " ", "A", "c", "t", "i", "o", "n", "s">>

\* the value null
Null == "null"

\* pathIds.map(id => getNode(id)).filter(n => n): the nodes of the keys that
\* are in the graph
PathNodes(N, pathIds) ==
    LET found == SelectSeq(pathIds, LAMBDA id : GraphHasNode(N, id)) IN
    [j \in 1..Len(found) |-> N[found[j]]]

\* GraphologyAdapter.getOutNeighborsByLabel: the attributes of the targets of
\* the out-edges of nodeId that carry the label, in the order of out[nodeId]
GetOutNeighborsByLabel(N, E, out, nodeId, label) ==
    IF ~GraphHasNode(N, nodeId) THEN <<>>
    ELSE LET hit == SelectSeq(out[nodeId], LAMBDA t :
                       \E k \in DOMAIN E :
                           E[k].source = nodeId /\ E[k].target = t /\ E[k].label = label) IN
         [i \in 1..Len(hit) |-> N[hit[i]]]

\* the pathType of getCommandExecutionPaths: the label test first, then the
\* policy test, which overwrites it
PathTypeOf(label, policyCount) ==
    LET byLabel == IF Includes(ToLowerCase(label), WordError)
                      \/ Includes(ToLowerCase(label), WordFailed)
                   THEN "ERROR_PATH" ELSE "HAPPY_PATH" IN
    IF policyCount > 0 THEN "POLICY_PATH" ELSE byLabel

\* the maxLength that getCommandExecutionPaths gives to findAllPaths
ExecutionMaxLength == 5

\* the entries pushed for one event of the command
EventPaths(N, E, out, commandId, command, event) ==
    LET eventPaths == FindAllPathsOf(N, out, commandId, event.id, ExecutionMaxLength)
        policyCommands == GetOutNeighborsByLabel(N, E, out, event.id, ThenPolicy) IN
    [i \in 1..Len(eventPaths) |->
        [pathIds |-> eventPaths[i],   \* the keys the path is built from, not returned
         path |-> PathNodes(N, eventPaths[i]),
         pathType |-> PathTypeOf(event.label, Len(policyCommands)),
         description |-> command.label \o Arrow \o event.label
                            \o (IF Len(policyCommands) > 0 THEN Arrow \o PolicyActions
                                ELSE <<>>)]]

RECURSIVE Concat(_, _)
Concat(seqs, i) == IF i > Len(seqs) THEN <<>> ELSE seqs[i] \o Concat(seqs, i + 1)

\* EventStormingAPI.getCommandExecutionPaths
GetCommandExecutionPathsOf(N, E, out, commandId) ==
    IF ~GraphHasNode(N, commandId) THEN [command |-> Null, paths |-> <<>>]
    ELSE IF N[commandId].type # "command" THEN [command |-> Null, paths |-> <<>>]
    ELSE LET command == N[commandId]
             events == GetOutNeighborsByLabel(N, E, out, commandId, Then) IN
         [command |-> command,
          paths |-> Concat([i \in 1..Len(events) |->
                               EventPaths(N, E, out, commandId, command, events[i])], 1)]

GetCommandExecutionPaths(commandId, out) ==
    /\ result' = Result("getCommandExecutionPaths", "ok",
                        [commandId |-> commandId,
                         returned |-> GetCommandExecutionPathsOf(nodes, edges, out, commandId)])
    /\ UNCHANGED <<nodes, edges, updates>>
    /\ UNCHANGED <<bridgeVars, graphData, wsClient>>

(***************************************************************************)
(* The methodology validators: GraphologyAdapter.validateEventStormingRules *)
(* and EventStormingAPI.validateEventStormingMethodology.                  *)
(***************************************************************************)
Quote == "\""

CommandOpen ==
    <<"C", "o", "m", "m", "a", "n", "d", " ", "\"">>
MustGenerate ==
    <<"\"", " ", "m", "u", "s", "t", " ", "g", "e", "n", "e", "r", "a", "t",
      "e", " ", "a", "t", " ", "l", "e", "a", "s", "t", " ", "o", "n", "e",
      " ", "e", "v", "e", "n", "t">>
EventOpen ==
    <<"E", "v", "e", "n", "t", " ", "\"">>
NotGenerated ==
    <<"\"", " ", "i", "s", " ", "n", "o", "t", " ", "g", "e", "n", "e", "r",
      "a", "t", "e", "d", " ", "b", "y", " ", "a", "n", "y", " ", "c", "o",
      "m", "m", "a", "n", "d">>

RuleMethodology ==
    <<"E", "v", "e", "n", "t", "S", "t", "o", "r", "m", "i", "n", "g", " ",
      "M", "e", "t", "h", "o", "d", "o", "l", "o", "g", "y">>
RuleBestPractice ==
    <<"E", "v", "e", "n", "t", "S", "t", "o", "r", "m", "i", "n", "g", " ",
      "B", "e", "s", "t", " ", "P", "r", "a", "c", "t", "i", "c", "e">>
SuggestFixFirst ==
    <<"F", "o", "c", "u", "s", " ", "o", "n", " ", "f", "i", "x", "i", "n",
      "g", " ", "m", "e", "t", "h", "o", "d", "o", "l", "o", "g", "y", " ",
      "v", "i", "o", "l", "a", "t", "i", "o", "n", "s", " ", "f", "i", "r",
      "s", "t", " ", "-", " ", "t", "h", "e", "y", " ", "r", "e", "p", "r",
      "e", "s", "e", "n", "t", " ", "s", "t", "r", "u", "c", "t", "u", "r",
      "a", "l", " ", "i", "s", "s", "u", "e", "s">>
SuggestReview ==
    <<"C", "o", "n", "s", "i", "d", "e", "r", " ", "r", "e", "v", "i", "e",
      "w", "i", "n", "g", " ", "y", "o", "u", "r", " ", "E", "v", "e", "n",
      "t", "S", "t", "o", "r", "m", "i", "n", "g", " ", "m", "o", "d", "e",
      "l", " ", "f", "o", "r", " ", "c", "o", "m", "p", "l", "e", "t", "e",
      "n", "e", "s", "s">>
SuggestImpact ==
    <<"U", "s", "e", " ", "i", "m", "p", "a", "c", "t", " ", "a", "n", "a",
      "l", "y", "s", "i", "s", " ", "b", "e", "f", "o", "r", "e", " ", "m",
      "a", "k", "i", "n", "g", " ", "c", "h", "a", "n", "g", "e", "s", " ",
      "t", "o", " ", "c", "r", "i", "t", "i", "c", "a", "l", " ", "n", "o",
      "d", "e", "s">>
SuggestCycles ==
    <<"C", "h", "e", "c", "k", " ", "f", "o", "r", " ", "c", "i", "r", "c",
      "u", "l", "a", "r", " ", "d", "e", "p", "e", "n", "d", "e", "n", "c",
      "i", "e", "s", " ", "r", "e", "g", "u", "l", "a", "r", "l", "y", " ",
      "t", "o", " ", "a", "v", "o", "i", "d", " ", "i", "n", "f", "i", "n",
      "i", "t", "e", " ", "l", "o", "o", "p", "s">>

\* the number of edges with the label that leave (enter) the node of the key
OutDegreeByLabel(E, key, label) ==
    Cardinality({k \in DOMAIN E : E[k].source = key /\ E[k].label = label})
InDegreeByLabel(E, key, label) ==
    Cardinality({k \in DOMAIN E : E[k].target = key /\ E[k].label = label})

\* GraphologyAdapter.validateEventStormingRules: both forEachNode loops
\* visit the keys in nodeOrder
ValidateEventStormingRules(N, E, nodeOrder) ==
    LET eventless == SelectSeq(nodeOrder, LAMBDA k :
                        N[k].type = "command" /\ OutDegreeByLabel(E, k, Then) = 0)
        unproduced == SelectSeq(nodeOrder, LAMBDA k :
                        N[k].type = "event" /\ InDegreeByLabel(E, k, Then) = 0)
        violations == [i \in 1..Len(eventless) |->
                          CommandOpen \o N[eventless[i]].label \o MustGenerate]
        warnings == [i \in 1..Len(unproduced) |->
                          EventOpen \o N[unproduced[i]].label \o NotGenerated] IN
    [isValid |-> Len(violations) = 0, violations |-> violations, warnings |-> warnings]

\* message.match(/"([^"]+)"/g) with the quotes taken off each match: the
\* non-empty texts between a quote and the next quote, left to right
RECURSIVE ExtractNodeIdsFromMessage(_, _)
ExtractNodeIdsFromMessage(message, from) ==
    LET opens == {i \in from..Len(message) : message[i] = Quote} IN
    IF opens = {} THEN <<>>
    ELSE LET open == CHOOSE i \in opens : \A j \in opens : i <= j
             closes == {i \in (open + 1)..Len(message) : message[i] = Quote} IN
         IF closes = {} THEN <<>>
         ELSE LET close == CHOOSE i \in closes : \A j \in closes : i <= j IN
              IF close = open + 1 THEN ExtractNodeIdsFromMessage(message, close)
              ELSE <<SubSeq(message, open + 1, close - 1)>>
                       \o ExtractNodeIdsFromMessage(message, close + 1)

\* the number of warnings above which a review is suggested
ReviewThreshold == 5

\* EventStormingAPI.generateSuggestions
GenerateSuggestions(violations, warnings) ==
    (IF Len(violations) > 0 THEN <<SuggestFixFirst>> ELSE <<>>)
    \o (IF Len(warnings) > ReviewThreshold THEN <<SuggestReview>> ELSE <<>>)
    \o <<SuggestImpact, SuggestCycles>>

\* EventStormingAPI.validateEventStormingMethodology
ValidateEventStormingMethodologyOf(N, E, nodeOrder) ==
    LET validation == ValidateEventStormingRules(N, E, nodeOrder)
        violations == [i \in 1..Len(validation.violations) |->
                          [rule |-> RuleMethodology,
                           message |-> validation.violations[i],
                           affectedNodes |->
                               ExtractNodeIdsFromMessage(validation.violations[i], 1)]]
        warnings == [i \in 1..Len(validation.warnings) |->
                          [rule |-> RuleBestPractice,
                           message |-> validation.warnings[i],
                           affectedNodes |->
                               ExtractNodeIdsFromMessage(validation.warnings[i], 1)]] IN
    [isValid |-> validation.isValid, violations |-> violations, warnings |-> warnings,
     suggestions |-> GenerateSuggestions(violations, warnings)]

ValidateEventStormingMethodology(nodeOrder) ==
    /\ result' = Result("validateEventStormingMethodology", "ok",
                        ValidateEventStormingMethodologyOf(nodes, edges, nodeOrder))
    /\ UNCHANGED <<nodes, edges, updates>>
    /\ UNCHANGED <<bridgeVars, graphData, wsClient>>

(***************************************************************************)
(* EventStormingAPI: getProcessFlow and getAggregateView.                  *)
(***************************************************************************)
\* the keys that graph.forEachInEdge(key, ...) comes from
GraphInNeighbors(E, key) == {E[k].source : k \in {x \in DOMAIN E : E[x].target = key}}

\* the ways forEachInEdge can order the in-neighbours of every node
InNeighborOrders(N, E) ==
    {inn \in [DOMAIN N -> UNION {Orders(GraphInNeighbors(E, k)) : k \in DOMAIN N}] :
        \A k \in DOMAIN N : inn[k] \in Orders(GraphInNeighbors(E, k))}

\* GraphologyAdapter.getInNeighborsByLabel
GetInNeighborsByLabel(N, E, inn, nodeId, label) ==
    IF ~GraphHasNode(N, nodeId) THEN <<>>
    ELSE LET hit == SelectSeq(inn[nodeId], LAMBDA s :
                       \E k \in DOMAIN E :
                           E[k].source = s /\ E[k].target = nodeId /\ E[k].label = label) IN
         [i \in 1..Len(hit) |-> N[hit[i]]]

\* list.filter(node => node.type === type)
FilterType(list, type) == SelectSeq(list, LAMBDA node : node.type = type)

\* list[0] of a list that may be empty
FirstOrUndefined(list) == IF Len(list) > 0 THEN list[1] ELSE Undefined

\* EventStormingAPI.getProcessFlow; the field null tells a null return
GetProcessFlowOf(N, E, out, inn, commandId) ==
    IF ~GraphHasNode(N, commandId) THEN [null |-> TRUE]
    ELSE IF N[commandId].type # "command" THEN [null |-> TRUE]
    ELSE
      LET events == FilterType(GetOutNeighborsByLabel(N, E, out, commandId, Then), "event") IN
      [null |-> FALSE,
       command |-> N[commandId],
       actor |-> FirstOrUndefined(
                    FilterType(GetInNeighborsByLabel(N, E, inn, commandId, Issues), "actor")),
       aggregate |-> FirstOrUndefined(
                    FilterType(GetOutNeighborsByLabel(N, E, out, commandId, On), "aggregate")),
       guards |-> FilterType(GetOutNeighborsByLabel(N, E, out, commandId, IfGuard), "guards"),
       preconditions |->
           FilterType(GetOutNeighborsByLabel(N, E, out, commandId, IfPreconditions),
                      "preconditions"),
       events |-> events,
       branchingLogic |->
           Concat([i \in 1..Len(events) |->
                      FilterType(GetOutNeighborsByLabel(N, E, out, events[i].id, If),
                                 "branchinglogic")], 1),
       policiesTriggered |->
           Concat([i \in 1..Len(events) |->
                      FilterType(GetOutNeighborsByLabel(N, E, out, events[i].id, ThenPolicy),
                                 "command")], 1)]

\* Array.from(new Map(list.map(e => [e.id, e])).values()): one entry per
\* id, at the place of the id's first occurrence, holding its last value
UniqueById(list) ==
    LET firsts == SelectSeq([i \in 1..Len(list) |-> i],
                            LAMBDA i : \A j \in 1..(i - 1) : list[j].id # list[i].id) IN
    [n \in 1..Len(firsts) |->
        list[CHOOSE i \in 1..Len(list) :
                /\ list[i].id = list[firsts[n]].id
                /\ \A j \in (i + 1)..Len(list) : list[j].id # list[i].id]]

\* EventStormingAPI.getAggregateView; the field null tells a null return
GetAggregateViewOf(N, E, out, inn, aggregateId) ==
    IF ~GraphHasNode(N, aggregateId) THEN [null |-> TRUE]
    ELSE IF N[aggregateId].type # "aggregate" THEN [null |-> TRUE]
    ELSE
      LET commandsOnAggregate ==
              FilterType(GetInNeighborsByLabel(N, E, inn, aggregateId, On), "command")
          flows == [i \in 1..Len(commandsOnAggregate) |->
                       GetProcessFlowOf(N, E, out, inn, commandsOnAggregate[i].id)]
          processes == SelectSeq(flows, LAMBDA flow : ~flow.null) IN
      [null |-> FALSE,
       aggregate |-> N[aggregateId],
       processes |-> processes,
       allCommands |-> commandsOnAggregate,
       allEvents |-> UniqueById(Concat([i \in 1..Len(processes) |-> processes[i].events], 1)),
       viewModels |->
           Concat([i \in 1..Len(commandsOnAggregate) |->
                      FilterType(GetInNeighborsByLabel(N, E, inn, commandsOnAggregate[i].id,
                                                       SupportsDecisionFor), "viewmodel")], 1)]

GetAggregateView(aggregateId, out, inn) ==
    /\ result' = Result("getAggregateView", "ok",
                        [aggregateId |-> aggregateId,
                         returned |-> GetAggregateViewOf(nodes, edges, out, inn, aggregateId)])
    /\ UNCHANGED <<nodes, edges, updates>>
    /\ UNCHANGED <<bridgeVars, graphData, wsClient>>

(***************************************************************************)
(* Remote operation bridge (eventStormingBridgePlugin).                    *)
(***************************************************************************)
MaxRequests == 2
MaxIssueTime == 2

\* sendOperationAndWaitForResponse(operation, timeout = 5000)
Timeout == 5000

\* the WebSocket objects the server creates, in the order it creates them
Sockets == {1, 2}

NoValue == [data |-> 0, error |-> ""]
Data(r) == [data |-> r, error |-> ""]
Error(msg) == [data |-> 0, error |-> msg]

\* resolve / reject of the Promise made for a request: the first call settles
\* it, later calls change nothing; calls counts every call
Settle(R, r, outcome, value) ==
    [R EXCEPT ![r] =
        IF @.outcome = "pending"
        THEN [@ EXCEPT !.outcome = outcome, !.value = value, !.calls = @ + 1]
        ELSE [@ EXCEPT !.calls = @ + 1]]

\* clearTimeout(timeoutId)
ClearTimeout(R, r) ==
    [R EXCEPT ![r].timer = IF @ = "armed" THEN "cleared" ELSE @]

\* faulty variant of PendingResolve: the timer is left running
PendingResolveKeepsTimer(R, r, data) == Settle(R, r, "resolved", Data(data))

\* the resolve stored in pendingRequests: clearTimeout, then resolve(data)
PendingResolve(R, r, data) == Settle(ClearTimeout(R, r), r, "resolved", Data(data))

\* the reject stored in pendingRequests: clearTimeout, then reject(error)
PendingReject(R, r, msg) == Settle(ClearTimeout(R, r), r, "rejected", Error(msg))

\* for (const [requestId, pending] of client.pendingRequests) pending.reject(...)
RECURSIVE RejectAll(_, _, _)
RejectAll(R, rs, msg) ==
    IF rs = {} THEN R
    ELSE LET r == CHOOSE x \in rs : TRUE IN
         RejectAll(PendingReject(R, r, msg), rs \ {r}, msg)

\* clients.delete(websocket)
ClientsDelete(C, s) == SelectSeq(C, LAMBDA x : x # s)

\* pendingRequests.delete(requestId)
PendingDelete(P, requestId) == [k \in DOMAIN P \ {requestId} |-> P[k]]

\* wss.on('connection'): the socket is registered and greeted
Connect(s) ==
    /\ sock[s] = "idle"
    /\ \A t \in Sockets : t < s => sock[t] # "idle"
    /\ sock' = [sock EXCEPT ![s] = "open"]
    /\ clients' = Append(clients, s)
    /\ pending' = [pending EXCEPT ![s] = EmptyMap]
    /\ toClient' = [toClient EXCEPT ![s] =
                       Append(@, [type |-> "connected", requestId |-> 0, req |-> 0])]
    /\ UNCHANGED <<reqs, toServer, now>>
    /\ UNCHANGED <<graphVars, graphData, wsClient>>

\* faulty variant of Issue: the latest registered client is taken
IssueToLastClient ==
    /\ Len(reqs) < MaxRequests
    /\ now <= MaxIssueTime
    /\ LET r == Len(reqs) + 1
           requestId == now
           new(chan, outcome, value, timer) ==
               [id |-> requestId, chan |-> chan, outcome |-> outcome, value |-> value,
                timer |-> timer, deadline |-> now + Timeout,
                calls |-> IF outcome = "pending" THEN 0 ELSE 1]
       IN
       IF Len(clients) = 0
       THEN /\ reqs' = Append(reqs, new(0, "rejected",
                                        Error("No connected EventStorming clients"), "none"))
            /\ UNCHANGED <<pending, toClient>>
       ELSE LET websocket == clients[Len(clients)] IN
            IF sock[websocket] # "open"
            THEN /\ reqs' = Append(reqs, new(websocket, "rejected",
                                             Error("WebSocket not ready"), "none"))
                 /\ UNCHANGED <<pending, toClient>>
            ELSE /\ reqs' = Append(reqs, new(websocket, "pending", NoValue, "armed"))
                 /\ pending' = [pending EXCEPT ![websocket] = (requestId :> r) @@ @]
                 /\ toClient' = [toClient EXCEPT ![websocket] =
                        Append(@, [type |-> "operation", requestId |-> requestId, req |-> r])]
    /\ UNCHANGED <<clients, sock, toServer, now>>
    /\ UNCHANGED <<graphVars, graphData, wsClient>>

\* an HTTP handler calls sendOperationAndWaitForResponse({..., requestId: Date.now()})
Issue ==
    /\ Len(reqs) < MaxRequests
    /\ now <= MaxIssueTime
    /\ LET r == Len(reqs) + 1
           requestId == now
           new(chan, outcome, value, timer) ==
               [id |-> requestId, chan |-> chan, outcome |-> outcome, value |-> value,
                timer |-> timer, deadline |-> now + Timeout,
                calls |-> IF outcome = "pending" THEN 0 ELSE 1]
       IN
       IF Len(clients) = 0
       THEN /\ reqs' = Append(reqs, new(0, "rejected",
                                        Error("No connected EventStorming clients"), "none"))
            /\ UNCHANGED <<pending, toClient>>
       ELSE LET websocket == clients[1] IN
            IF sock[websocket] # "open"
            THEN /\ reqs' = Append(reqs, new(websocket, "rejected",
                                             Error("WebSocket not ready"), "none"))
                 /\ UNCHANGED <<pending, toClient>>
            ELSE /\ reqs' = Append(reqs, new(websocket, "pending", NoValue, "armed"))
                 /\ pending' = [pending EXCEPT ![websocket] = (requestId :> r) @@ @]
                 /\ toClient' = [toClient EXCEPT ![websocket] =
                        Append(@, [type |-> "operation", requestId |-> requestId, req |-> r])]
    /\ UNCHANGED <<clients, sock, toServer, now>>
    /\ UNCHANGED <<graphVars, graphData, wsClient>>

\* EventStormingClient.handleMessage / sendResponse in the renderer: the
\* operation is executed and answered with the requestId it carried
ClientHandle(s) ==
    /\ toClient[s] # <<>>
    /\ toClient' = [toClient EXCEPT ![s] = Tail(@)]
    /\ LET message == Head(toClient[s]) IN
       IF message.type = "operation" /\ sock[s] = "open"
       THEN toServer' = [toServer EXCEPT ![s] =
                Append(@, [type |-> "response", requestId |-> message.requestId,
                           data |-> message.req])]
       ELSE UNCHANGED toServer
    /\ UNCHANGED <<clients, sock, pending, reqs, now>>
    /\ UNCHANGED <<graphVars, graphData, wsClient>>

\* faulty variant of Message: the requestId is looked up on every channel
MessageAnyChannel(s) ==
    /\ sock[s] = "open"
    /\ toServer[s] # <<>>
    /\ toServer' = [toServer EXCEPT ![s] = Tail(@)]
    /\ LET message == Head(toServer[s]) IN
       IF /\ message.type = "response"
          /\ message.requestId # 0
          /\ \E t \in Sockets : message.requestId \in DOMAIN pending[t]
       THEN LET t == CHOOSE t \in Sockets : message.requestId \in DOMAIN pending[t] IN
            /\ reqs' = PendingResolve(reqs, pending[t][message.requestId], message.data)
            /\ pending' = [pending EXCEPT ![t] = PendingDelete(@, message.requestId)]
       ELSE UNCHANGED <<reqs, pending>>
    /\ UNCHANGED <<clients, sock, toClient, now>>
    /\ UNCHANGED <<graphVars, graphData, wsClient>>

\* websocket.on('message')
Message(s) ==
    /\ sock[s] = "open"
    /\ toServer[s] # <<>>
    /\ toServer' = [toServer EXCEPT ![s] = Tail(@)]
    /\ LET message == Head(toServer[s]) IN
       IF /\ message.type = "response"
          /\ message.requestId # 0
          /\ \E i \in 1..Len(clients) : clients[i] = s
          /\ message.requestId \in DOMAIN pending[s]
       THEN /\ reqs' = PendingResolve(reqs, pending[s][message.requestId], message.data)
            /\ pending' = [pending EXCEPT ![s] = PendingDelete(@, message.requestId)]
       ELSE UNCHANGED <<reqs, pending>>
    /\ UNCHANGED <<clients, sock, toClient, now>>
    /\ UNCHANGED <<graphVars, graphData, wsClient>>

\* the peer starts the closing handshake: readyState leaves OPEN before the
\* close event is emitted
BeginClose(s) ==
    /\ sock[s] = "open"
    /\ sock' = [sock EXCEPT ![s] = "closing"]
    /\ UNCHANGED <<clients, pending, reqs, toClient, toServer, now>>
    /\ UNCHANGED <<graphVars, graphData, wsClient>>

\* websocket.on('error'); the socket is closing from then on
SocketError(s) ==
    /\ sock[s] = "open"
    /\ sock' = [sock EXCEPT ![s] = "closing"]
    /\ clients' = ClientsDelete(clients, s)
    /\ UNCHANGED <<pending, reqs, toClient, toServer, now>>
    /\ UNCHANGED <<graphVars, graphData, wsClient>>

\* websocket.on('close')
SocketClose(s) ==
    /\ sock[s] \in {"open", "closing"}
    /\ sock' = [sock EXCEPT ![s] = "closed"]
    /\ IF \E i \in 1..Len(clients) : clients[i] = s
       THEN reqs' = RejectAll(reqs, {pending[s][k] : k \in DOMAIN pending[s]},
                              "WebSocket connection closed")
       ELSE UNCHANGED reqs
    /\ clients' = ClientsDelete(clients, s)
    \* a closed socket delivers nothing more, in either direction
    /\ toClient' = [toClient EXCEPT ![s] = <<>>]
    /\ toServer' = [toServer EXCEPT ![s] = <<>>]
    /\ UNCHANGED <<pending, now>>
    /\ UNCHANGED <<graphVars, graphData, wsClient>>

\* the setTimeout callback of request r
TimerFire(r) ==
    /\ r \in 1..Len(reqs)
    /\ reqs[r].timer = "armed"
    /\ now >= reqs[r].deadline
    /\ pending' = [pending EXCEPT ![reqs[r].chan] = PendingDelete(@, reqs[r].id)]
    /\ reqs' = Settle([reqs EXCEPT ![r].timer = "fired"], r, "rejected",
                      Error("Request timeout"))
    /\ UNCHANGED <<clients, sock, toClient, toServer, now>>
    /\ UNCHANGED <<graphVars, graphData, wsClient>>

\* time passes: by a millisecond inside the window in which requests are
\* issued, or by a whole timeout, after which every timer that was set is due
Tick(d) ==
    /\ IF d = Timeout
       THEN now <= MaxIssueTime
       ELSE now + d <= MaxIssueTime
    /\ now' = now + d
    /\ UNCHANGED <<clients, sock, pending, reqs, toClient, toServer>>
    /\ UNCHANGED <<graphVars, graphData, wsClient>>

(***************************************************************************)
(* The reactive store: apiStore and the graphData derived from it.         *)
(***************************************************************************)
\* EventStormingAPI.getGraph: the attributes of every node and of every
\* edge, kept here under the keys the graph stores them by
GetGraph == [nodes |-> nodes, edges |-> edges]

\* triggerReactivity: apiStore.set(get(apiStore)) notifies the subscribers
\* of apiStore, and graphData, derived from it, publishes $api.getGraph() as
\* it is after the engine call
TriggerReactivity == graphData' = GetGraph'

\* the branch of a graphOperations function that returns without
\* triggerReactivity(), or a call the engine ended with an exception
NoReactivity == graphData' = graphData

\* the name of a node type, character by character
TypeName(type) ==
    CASE type = "actor" -> <<"a", "c", "t", "o", "r">>
      [] type = "command" -> <<"c", "o", "m", "m", "a", "n", "d">>
      [] type = "aggregate" -> <<"a", "g", "g", "r", "e", "g", "a", "t", "e">>
      [] type = "event" -> <<"e", "v", "e", "n", "t">>
      [] type = "viewmodel" -> <<"v", "i", "e", "w", "m", "o", "d", "e", "l">>
      [] type = "preconditions" ->
             <<"p", "r", "e", "c", "o", "n", "d", "i", "t", "i", "o", "n", "s">>
      [] type = "guards" -> <<"g", "u", "a", "r", "d", "s">>
      [] type = "branchinglogic" ->
             <<"b", "r", "a", "n", "c", "h", "i", "n", "g", "l", "o", "g", "i", "c">>
      [] type = "boundary" -> <<"b", "o", "u", "n", "d", "a", "r", "y">>

\* the decimal digits of a natural number
RECURSIVE Digits(_)
Digits(n) == IF n < 10 THEN <<ToString(n)>> ELSE Digits(n \div 10) \o <<ToString(n % 10)>>

\* graphOperations.addNode: the node it builds from the node data, with
\* `${type}-${Date.now()}` for a missing id and `New ${type}` for a missing
\* label
StoreNode(nodeData) ==
    [id |-> IF nodeData.id = Empty
            THEN TypeName(nodeData.type) \o <<"-">> \o Digits(now) ELSE nodeData.id,
     label |-> IF nodeData.label = Empty
               THEN <<"N", "e", "w", " ">> \o TypeName(nodeData.type) ELSE nodeData.label,
     type |-> nodeData.type]

(***************************************************************************)
(* EventStormingClient: the WebSocket client of the renderer.              *)
(***************************************************************************)
\* private maxReconnectAttempts = 5
MaxReconnectAttempts == 5

\* the connections the client may make in one run
MaxConnections == 8

\* this.ws = null
NoSocket == 0

\* the client after its constructor, which calls connect(): sockets holds
\* the readyState of every WebSocket the client has made, ws is the index of
\* the one this.ws refers to, timers counts the setTimeout callbacks that are
\* set; disconnected (disconnect() has been called) and unopened (the
\* reconnections begun since the last open event) are history only
ClientConstructed ==
    [sockets |-> <<"connecting">>, ws |-> 1, reconnectAttempts |-> 0, timers |-> 0,
     disconnected |-> FALSE, unopened |-> 0]

\* EventStormingClient.connect: new WebSocket(url) with its four handlers
ClientConnect(c) ==
    [c EXCEPT !.sockets = Append(@, "connecting"), !.ws = Len(c.sockets) + 1]

\* EventStormingClient.attemptReconnect
AttemptReconnect(c) ==
    IF c.reconnectAttempts < MaxReconnectAttempts
    THEN [c EXCEPT !.reconnectAttempts = @ + 1, !.timers = @ + 1, !.unopened = @ + 1]
    ELSE c

\* the state after construction of the store and of the client
RendererInit ==
    /\ graphData = [nodes |-> EmptyMap, edges |-> EmptyMap]
    /\ wsClient = ClientConstructed

BridgeInit ==
    /\ clients = <<>>
    /\ sock = [s \in Sockets |-> "idle"]
    /\ pending = [s \in Sockets |-> EmptyMap]
    /\ reqs = <<>>
    /\ toClient = [s \in Sockets |-> <<>>]
    /\ toServer = [s \in Sockets |-> <<>>]
    /\ now = 1

BridgeNext ==
    \/ \E s \in Sockets : Connect(s)
    \/ Issue
    \/ \E s \in Sockets : ClientHandle(s)
    \/ \E s \in Sockets : Message(s)
    \/ \E s \in Sockets : BeginClose(s)
    \/ \E s \in Sockets : SocketError(s)
    \/ \E s \in Sockets : SocketClose(s)
    \/ \E r \in 1..MaxRequests : TimerFire(r)
    \/ \E d \in {1, Timeout} : Tick(d)

GraphInit ==
    /\ nodes = EmptyMap
    /\ edges = EmptyMap
    /\ result = Result("new", "ok", <<>>)
    /\ updates = 0

Init == GraphInit /\ BridgeInit /\ RendererInit

GraphNext ==
    \/ \E node \in AddNodeInputs : AddNode(node)
    \/ \E id \in NodeIds, upd \in UpdateInputs : UpdateNode(id, upd)
    \/ \E id \in NodeIds : RemoveNode(id)
    \/ \E edge \in EdgeInputs : AddEdge(edge)
    \/ \E edge \in EdgeInputs : RemoveEdge(edge.source, edge.target, edge.label)
    \/ \E data \in Snapshots : LoadGraph(data)

SpecGraph == Init /\ [][GraphNext]_vars

\* the engine driven through its mutation API only (no bulk load)
ApiNext ==
    \/ \E node \in AddNodeInputs : AddNode(node)
    \/ \E id \in NodeIds, upd \in UpdateInputs : UpdateNode(id, upd)
    \/ \E id \in NodeIds : RemoveNode(id)
    \/ \E edge \in EdgeInputs : AddEdge(edge)
    \/ \E edge \in EdgeInputs : RemoveEdge(edge.source, edge.target, edge.label)

SpecApi == Init /\ [][ApiNext]_vars

\* a node whose description is set to undefined (as createCommandFlow does
\* when it is given no description)
NodeUndescribed == [id |-> IdC, label |-> LabelL, type |-> "event", description |-> Undefined]

\* the engine with its export read back by its import
RoundTripNext ==
    \/ \E node \in {SnapA, SnapC, NodeUndescribed} : AddNode(node)
    \/ \E id \in {IdA, IdC}, upd \in UpdateInputs : UpdateNode(id, upd)
    \/ \E id \in {IdA, IdC} : RemoveNode(id)
    \/ \E edge \in EdgeInputs : AddEdge(edge)
    \/ \E edge \in EdgeInputs : RemoveEdge(edge.source, edge.target, edge.label)
    \/ \E data \in Snapshots : LoadGraph(data)
    \/ \E nodeOrder \in Orders(DOMAIN nodes), edgeOrder \in Orders(DOMAIN edges) :
          ImportExported(nodeOrder, edgeOrder)

SpecRoundTrip == Init /\ [][RoundTripNext]_vars

\* inputs of the command-flow specification
IdP == <<"p">>
IdQ == <<"q">>
IdG == <<"g">>
IdV == <<"v">>
IdE == <<"e">>
IdPIssues == <<"p", "-", "i", "s", "s", "u", "e", "s">>
IdThenE == <<"t", "h", "e", "n", "-", "e">>
Notes == <<"n", "o", "t", "e", "s">>

FlowCommand == [id |-> IdPIssues, label |-> LabelL, type |-> "command"]
FlowEvent == [id |-> IdE, label |-> LabelL, type |-> "event"]
FlowThen == [source |-> IdPIssues, label |-> Then, target |-> IdE]

FlowParam(actorId, commandId, aggregateId, eventId, eventLabel, description) ==
    [actorId |-> actorId, actorLabel |-> LabelL, commandId |-> commandId,
     commandLabel |-> LabelM, aggregateId |-> aggregateId, aggregateLabel |-> LabelL,
     eventId |-> eventId, eventLabel |-> eventLabel, description |-> description]

FlowParams ==
    {FlowParam(IdP, IdQ, IdG, IdV, LabelL, Undefined),
     FlowParam(IdP, IdThenE, IdG, IdV, LabelL, Notes),
     FlowParam(IdP, IdQ, IdG, IdE, LabelL, Notes),
     FlowParam(IdP, IdQ, IdG, IdV, Blank, Undefined),
     FlowParam(IdP, IdQ, IdQ, IdV, LabelL, Undefined)}

FlowIds == {IdP, IdV, IdPIssues}

\* the engine with its compound operation
FlowNext ==
    \/ \E node \in {FlowCommand, FlowEvent} : AddNode(node)
    \/ \E id \in FlowIds : RemoveNode(id)
    \/ AddEdge(FlowThen)
    \/ RemoveEdge(FlowThen.source, FlowThen.target, FlowThen.label)
    \/ \E params \in FlowParams : CreateCommandFlow(params)

SpecFlow == Init /\ [][FlowNext]_vars

\* inputs of the graph-algorithm specifications: two commands and two
\* events, and the edges the API accepts between them
IdC1 == <<"c", "1">>
IdE1 == <<"e", "1">>
IdC2 == <<"c", "2">>
IdE2 == <<"e", "2">>

AnalysisCommands == {IdC1, IdC2}
AnalysisEvents == {IdE1, IdE2}
AnalysisKeys == AnalysisCommands \cup AnalysisEvents

AnalysisNodes ==
    [k \in AnalysisKeys |->
        [id |-> k, label |-> LabelL,
         type |-> IF k \in AnalysisCommands THEN "command" ELSE "event"]]

AnalysisEdges ==
    {[source |-> c, label |-> Then, target |-> e] :
        c \in AnalysisCommands, e \in AnalysisEvents}
    \cup {[source |-> e, label |-> ThenPolicy, target |-> c] :
        e \in AnalysisEvents, c \in AnalysisCommands}

\* the edge map of a graph that holds the edges S
EdgeMap(S) ==
    [k \in {EdgeKey(e.source, e.label, e.target) : e \in S} |->
        CHOOSE e \in S : EdgeKey(e.source, e.label, e.target) = k]

\* a graph of the four nodes and any of the edges has been built
AnalysisInit ==
    /\ nodes = AnalysisNodes
    /\ edges \in {EdgeMap(S) : S \in SUBSET AnalysisEdges}
    /\ result = Result("new", "ok", <<>>)
    /\ updates = 0
    /\ BridgeInit
    /\ RendererInit

\* cycle detection on the graphs of AnalysisInit
CyclesNext ==
    \E nodeOrder \in Orders(DOMAIN nodes), out \in NeighborOrders(nodes, edges) :
        DetectCycles(nodeOrder, out)

SpecCycles == AnalysisInit /\ [][CyclesNext]_vars

\* impact analysis on the graphs of AnalysisInit
ImpactNext ==
    \E nodeId \in AnalysisKeys \cup {IdZ}, out \in NeighborOrders(nodes, edges) :
        GetImpactAnalysis(nodeId, out)

SpecImpact == AnalysisInit /\ [][ImpactNext]_vars

\* the largest maxLength given to findAllPaths
MaxPathLength == 3

\* the calls of findAllPaths: from a command and from an event to itself, to
\* the other node of its type and to a node of the other type, and with a
\* node that is not there (the graphs of AnalysisInit are the same set when
\* the two commands or the two events are exchanged)
PathEnds ==
    {<<IdC1, IdC1>>, <<IdC1, IdC2>>, <<IdC1, IdE1>>,
     <<IdE1, IdE1>>, <<IdE1, IdE2>>, <<IdE1, IdC1>>,
     <<IdZ, IdC1>>, <<IdC1, IdZ>>}

\* path enumeration on the graphs of AnalysisInit
PathsNext ==
    \E ends \in PathEnds, maxLength \in (0..MaxPathLength) \cup {DefaultMaxLength},
       out \in NeighborOrders(nodes, edges) :
        FindAllPaths(ends[1], ends[2], maxLength, out)

SpecPaths == AnalysisInit /\ [][PathsNext]_vars

\* inputs of the execution-path specification: a command, an event whose
\* label is plain, names an error or names a failure, and a second event
LabelError == <<"E", "r", "r", "o", "r">>
LabelFailed == <<"p", "a", "y", "F", "A", "I", "L", "E", "D">>

ExecNodes ==
    {[id |-> IdA, label |-> LabelM, type |-> "command"],
     [id |-> IdC, label |-> LabelL, type |-> "event"],
     [id |-> IdC, label |-> LabelError, type |-> "event"],
     [id |-> IdC, label |-> LabelFailed, type |-> "event"],
     [id |-> IdZ, label |-> LabelL, type |-> "event"]}

ExecEdges ==
    {[source |-> IdA, label |-> Then, target |-> IdC],
     [source |-> IdA, label |-> Then, target |-> IdZ],
     [source |-> IdC, label |-> ThenPolicy, target |-> IdA],
     [source |-> IdZ, label |-> ThenPolicy, target |-> IdA]}

\* the engine with its execution-path query
ExecNext ==
    \/ \E node \in ExecNodes : AddNode(node)
    \/ \E edge \in ExecEdges : AddEdge(edge)
    \/ \E edge \in ExecEdges : RemoveEdge(edge.source, edge.target, edge.label)
    \/ \E upd \in {[id |-> IdZ], [label |-> LabelError]} : UpdateNode(IdC, upd)
    \/ \E commandId \in {IdA, IdC}, out \in NeighborOrders(nodes, edges) :
          GetCommandExecutionPaths(commandId, out)

SpecExec == Init /\ [][ExecNext]_vars

\* the methodology validator on the graphs of AnalysisInit
MethodNext ==
    \E nodeOrder \in Orders(DOMAIN nodes) : ValidateEventStormingMethodology(nodeOrder)

SpecMethod == AnalysisInit /\ [][MethodNext]_vars

\* inputs of the aggregate-view specification: an aggregate, two commands
\* on it, an event and a view model
ViewNodes ==
    (IdG :> [id |-> IdG, label |-> LabelL, type |-> "aggregate"])
    @@ (IdP :> [id |-> IdP, label |-> LabelL, type |-> "command"])
    @@ (IdQ :> [id |-> IdQ, label |-> LabelM, type |-> "command"])
    @@ (IdE :> [id |-> IdE, label |-> LabelL, type |-> "event"])
    @@ (IdV :> [id |-> IdV, label |-> LabelL, type |-> "viewmodel"])

ViewEdges ==
    {[source |-> IdP, label |-> On, target |-> IdG],
     [source |-> IdQ, label |-> On, target |-> IdG],
     [source |-> IdP, label |-> Then, target |-> IdE],
     [source |-> IdQ, label |-> Then, target |-> IdE],
     [source |-> IdV, label |-> SupportsDecisionFor, target |-> IdP],
     [source |-> IdV, label |-> SupportsDecisionFor, target |-> IdQ]}

\* a graph of the five nodes and any of the edges has been built
ViewInit ==
    /\ nodes = ViewNodes
    /\ edges \in {EdgeMap(S) : S \in SUBSET ViewEdges}
    /\ result = Result("new", "ok", <<>>)
    /\ updates = 0
    /\ BridgeInit
    /\ RendererInit

ViewNext ==
    \E aggregateId \in {IdG, IdP, IdZ},
       out \in NeighborOrders(nodes, edges), inn \in InNeighborOrders(nodes, edges) :
        GetAggregateView(aggregateId, out, inn)

SpecView == ViewInit /\ [][ViewNext]_vars

\* inputs of the node-validation specification
IdUpper == <<"A", "b">>

NodeInputIds == {Empty, Blank, IdA, IdUpper}
NodeInputLabels == {Empty, Blank, LabelL}
NodeInputTypes == ValidTypes \cup {"boundary"}

\* the engine with addNode and removeNode only
NodeNext ==
    \/ \E id \in NodeInputIds, label \in NodeInputLabels, type \in NodeInputTypes :
          AddNode([id |-> id, label |-> label, type |-> type])
    \/ \E id \in NodeInputIds : RemoveNode(id)

SpecNode == Init /\ [][NodeNext]_vars

\* inputs of the compound-helper specification
IdK == <<"k">>
ItemK == [id |-> IdK, label |-> LabelL, description |-> Undefined]
ItemV == [id |-> IdV, label |-> LabelM, description |-> Notes]
ItemLists == {<<ItemK>>, <<ItemK, ItemV>>}

\* the engine with its three compound helpers
CompoundNext ==
    \/ \E node \in {FlowCommand, FlowEvent} : AddNode(node)
    \/ \E id \in {IdK, IdPIssues} : RemoveNode(id)
    \/ \E params \in FlowParams : CreateCommandFlow(params)
    \/ \E commandId \in {IdPIssues, IdE}, guards \in ItemLists :
          AddCommandGuards(commandId, guards)
    \/ \E commandId \in {IdPIssues, IdE}, preconditions \in ItemLists :
          AddCommandPreconditions(commandId, preconditions)

SpecCompound == Init /\ [][CompoundNext]_vars

\* inputs of the node-identity specification
SnapZ == [id |-> IdZ, label |-> LabelM, type |-> "event"]
ExtendedFields == {[businessContext |-> Notes], [assertion |-> Notes, domainModel |-> Notes]}

\* the engine with its four node operations
IdentityNext ==
    \/ \E node \in {SnapA, SnapC, SnapZ} : AddNode(node)
    \/ \E id \in {IdA, IdC}, upd \in UpdateInputs : UpdateNode(id, upd)
    \/ \E id \in {IdA, IdZ}, fields \in ExtendedFields : UpdateNodeExtendedFields(id, fields)
    \/ \E id \in {IdA, IdC, IdZ} : RemoveNode(id)

SpecIdentity == Init /\ [][IdentityNext]_vars

\* the texts given to importFromJSON: one that does not parse, two that lack
\* an array, and the snapshots
JsonInputs ==
    {[parses |-> FALSE],
     [parses |-> TRUE, data |-> [edges |-> <<>>]],
     [parses |-> TRUE, data |-> [nodes |-> <<SnapA>>]]}
    \cup {[parses |-> TRUE, data |-> data] : data \in Snapshots}

\* the engine with its import
ImportNext ==
    \/ \E node \in {SnapA, SnapC, SnapZ} : AddNode(node)
    \/ \E id \in {IdA, IdZ} : RemoveNode(id)
    \/ AddEdge(SnapThen)
    \/ \E json \in JsonInputs : ImportFromJSON(json)

SpecImport == Init /\ [][ImportNext]_vars

(***************************************************************************)
(* graphOperations of the reactive store.                                  *)
(***************************************************************************)
\* triggerReactivity() is called if (result.isValid)
ReactIfValid == IF result'.status = "ok" THEN TriggerReactivity ELSE NoReactivity

\* graphOperations.addNode
GraphOperationsAddNode(nodeData) ==
    /\ ApiAddNode(StoreNode(nodeData))
    /\ ReactIfValid
    /\ UNCHANGED <<bridgeVars, wsClient>>

\* graphOperations.updateNode
GraphOperationsUpdateNode(nodeId, upd) ==
    /\ ApiUpdateNode(nodeId, upd)
    /\ ReactIfValid
    /\ UNCHANGED <<bridgeVars, wsClient>>

\* graphOperations.deleteNode: getChangeImpactAnalysis only reads the graph
GraphOperationsDeleteNode(nodeId) ==
    /\ ApiRemoveNode(nodeId)
    /\ ReactIfValid
    /\ UNCHANGED <<bridgeVars, wsClient>>

\* graphOperations.addEdge
GraphOperationsAddEdge(edgeData) ==
    /\ ApiAddEdge(edgeData)
    /\ ReactIfValid
    /\ UNCHANGED <<bridgeVars, wsClient>>

\* graphOperations.loadGraph: triggerReactivity() follows api.loadGraph(data)
\* unless that call threw
GraphOperationsLoadGraph(data) ==
    /\ ApiLoadGraph(data)
    /\ IF result'.status = "threw" THEN NoReactivity ELSE TriggerReactivity
    /\ UNCHANGED <<bridgeVars, wsClient>>

\* graphOperations.clearGraph
GraphOperationsClearGraph ==
    /\ ApiLoadGraph([nodes |-> <<>>, edges |-> <<>>])
    /\ TriggerReactivity
    /\ UNCHANGED <<bridgeVars, wsClient>>

\* graphOperations.createCommandFlow
GraphOperationsCreateCommandFlow(params) ==
    /\ ApiCreateCommandFlow(params)
    /\ ReactIfValid
    /\ UNCHANGED <<bridgeVars, wsClient>>

\* graphOperations.addCommandGuards
GraphOperationsAddCommandGuards(commandId, guards) ==
    /\ ApiAddCommandGuards(commandId, guards)
    /\ ReactIfValid
    /\ UNCHANGED <<bridgeVars, wsClient>>

\* graphOperations.addCommandPreconditions
GraphOperationsAddCommandPreconditions(commandId, preconditions) ==
    /\ ApiAddCommandPreconditions(commandId, preconditions)
    /\ ReactIfValid
    /\ UNCHANGED <<bridgeVars, wsClient>>

\* node data given to graphOperations.addNode: with and without an id and a
\* label
StoreNodeData ==
    {FlowCommand, FlowEvent,
     [id |-> Empty, label |-> Empty, type |-> "event"],
     [id |-> IdK, label |-> Blank, type |-> "guards"]}

StoreSnapshots ==
    {[nodes |-> <<FlowCommand, FlowEvent>>, edges |-> <<FlowThen>>],
     [nodes |-> <<FlowCommand, FlowCommand>>, edges |-> <<>>]}

\* the graph changed through the store only
StoreNext ==
    \/ \E nodeData \in StoreNodeData : GraphOperationsAddNode(nodeData)
    \/ \E nodeId \in {IdPIssues, IdE}, upd \in {[label |-> LabelM], [label |-> Blank]} :
          GraphOperationsUpdateNode(nodeId, upd)
    \/ \E nodeId \in {IdK, IdPIssues} : GraphOperationsDeleteNode(nodeId)
    \/ \E edgeData \in {FlowThen, [source |-> IdE, label |-> Then, target |-> IdPIssues]} :
          GraphOperationsAddEdge(edgeData)
    \/ \E data \in StoreSnapshots : GraphOperationsLoadGraph(data)
    \/ GraphOperationsClearGraph
    \/ \E params \in {FlowParam(IdP, IdQ, IdG, IdV, LabelL, Undefined),
                      FlowParam(IdP, IdQ, IdG, IdV, Blank, Undefined)} :
          GraphOperationsCreateCommandFlow(params)
    \/ \E commandId \in {IdPIssues, IdE}, guards \in {<<ItemK>>} :
          GraphOperationsAddCommandGuards(commandId, guards)
    \/ \E commandId \in {IdPIssues, IdE}, preconditions \in {<<ItemK>>} :
          GraphOperationsAddCommandPreconditions(commandId, preconditions)

SpecStore == Init /\ [][StoreNext]_vars

(***************************************************************************)
(* EventStormingClient: its handlers.                                      *)
(***************************************************************************)
\* ws.onopen of the socket s: this.reconnectAttempts = 0
ClientOnOpen(s) ==
    /\ wsClient.sockets[s] = "connecting"
    /\ wsClient' = [wsClient EXCEPT !.sockets[s] = "open", !.reconnectAttempts = 0,
                                    !.unopened = 0]
    /\ UNCHANGED <<graphVars, bridgeVars, graphData>>

\* ws.onclose of the socket s, which failed to connect, was closed by the
\* server or was closed by ws.close(): this.attemptReconnect()
ClientOnClose(s) ==
    /\ wsClient.sockets[s] \in {"connecting", "open", "closing"}
    /\ wsClient' = AttemptReconnect([wsClient EXCEPT !.sockets[s] = "closed"])
    /\ UNCHANGED <<graphVars, bridgeVars, graphData>>

\* the callback attemptReconnect gave to setTimeout: this.connect()
ClientTimer ==
    /\ wsClient.timers > 0
    /\ Len(wsClient.sockets) < MaxConnections
    /\ wsClient' = ClientConnect([wsClient EXCEPT !.timers = @ - 1])
    /\ UNCHANGED <<graphVars, bridgeVars, graphData>>

\* EventStormingClient.disconnect, when this.ws is set: this.ws.close() and
\* this.ws = null; the handlers of the socket stay in place
ClientDisconnect ==
    /\ wsClient.ws # NoSocket
    /\ wsClient' = [wsClient EXCEPT
                        !.sockets[wsClient.ws] =
                            IF @ \in {"connecting", "open"} THEN "closing" ELSE @,
                        !.ws = NoSocket,
                        !.disconnected = TRUE]
    /\ UNCHANGED <<graphVars, bridgeVars, graphData>>

ClientNext ==
    \/ \E s \in 1..Len(wsClient.sockets) : ClientOnOpen(s)
    \/ \E s \in 1..Len(wsClient.sockets) : ClientOnClose(s)
    \/ ClientTimer
    \/ ClientDisconnect

\* the event loop runs a timer that is due and dispatches the close event
\* of a socket that is closing
ClientFairness ==
    /\ WF_vars(ClientTimer)
    /\ WF_vars(\E s \in 1..Len(wsClient.sockets) : ClientOnClose(s))

SpecClient == Init /\ [][ClientNext]_vars /\ ClientFairness

SpecBridge == Init /\ [][BridgeNext]_vars

\* the event loop runs every timer that is due and the clock keeps running
BridgeFairness ==
    /\ WF_vars(\E d \in {1, Timeout} : Tick(d))
    /\ \A r \in 1..MaxRequests : WF_vars(TimerFire(r))

SpecBridgeFair == Init /\ [][BridgeNext]_vars /\ BridgeFairness

(***************************************************************************)
(* Claims about the graph engine.                                          *)
(***************************************************************************)

\* C1: every edge returned by getGraph() has a source and a target that are
\* ids of nodes returned by getGraph() (no dangling edge).
C1_NoDanglingEdge ==
    \A e \in GetGraphEdges :
        /\ \E n \in GetGraphNodes : n.id = e.source
        /\ \E n \in GetGraphNodes : n.id = e.target

\* C2: after any sequence of API mutations, the (source type, target type)
\* pair of every stored edge is the pair the table lists for its label.
C2_EdgeTypesInTable ==
    \A e \in GetGraphEdges :
        /\ e.label \in DOMAIN ValidCombinations
        /\ <<nodes[e.source].type, nodes[e.target].type>> \in ValidCombinations[e.label]

\* C3: right after removeNode(N) succeeded, N is gone, getNodeEdges(N) is
\* empty and no stored edge has source N or target N.
C3_RemoveNodeCascades ==
    (result.op = "removeNode" /\ result.status = "ok") =>
        /\ ~GraphHasNode(nodes, result.arg)
        /\ AdapterGetNodeEdges(nodes, edges, result.arg) = {}
        /\ \A e \in GetGraphEdges : e.source # result.arg /\ e.target # result.arg

\* a node with two attached edges was removed and other edges remain
C3_Witness ==
    /\ result.op = "removeNode"
    /\ result.status = "ok"
    /\ result.incident = 2
    /\ edges # EmptyMap

\* C4: a primitive mutation that returns isValid=false leaves the nodes,
\* their fields and the edges exactly as they were.
C4_InvalidLeavesGraph ==
    [][result'.status = "invalid" => (nodes' = nodes /\ edges' = edges)]_vars

\* addEdge was refused for a triple that is stored, in a graph with content
C4_Witness ==
    /\ result.op = "addEdge"
    /\ result.status = "invalid"
    /\ result.arg \in GetGraphEdges
    /\ Cardinality(DOMAIN nodes) > 2

\* the precondition C5 gives for addEdge to succeed
C5_Accepts(N, E, e) ==
    /\ GraphHasNode(N, e.source)
    /\ GraphHasNode(N, e.target)
    /\ e.label \in DOMAIN ValidCombinations
    /\ <<N[e.source].type, N[e.target].type>> \in ValidCombinations[e.label]
    /\ e \notin {E[k] : k \in DOMAIN E}

\* C5: addEdge(e) returns isValid=true and adds e exactly when both endpoints
\* exist, the type pair is the table pair for e.label and no stored edge has
\* the same (source, label, target) triple.
C5_AddEdgeExactlyWhen ==
    [][result'.op = "addEdge" =>
          /\ (result'.status = "ok") <=> C5_Accepts(nodes, edges, result'.arg)
          /\ (result'.status = "ok") =>
                {edges'[k] : k \in DOMAIN edges'} = GetGraphEdges \cup {result'.arg}
      ]_vars

\* C6: the store never holds two edges with the same triple, and after
\* loadGraph of a snapshot it holds every snapshot edge whose endpoints are
\* nodes of the graph, also two edges between the same source and target
\* that differ only in their label.
C6_ParallelLabelsLoaded ==
    /\ \A k1, k2 \in DOMAIN edges : edges[k1] = edges[k2] => k1 = k2
    /\ result.op = "loadGraph" =>
          \A i \in 1..Len(result.arg.edges) :
              LET e == result.arg.edges[i] IN
              (GraphHasNode(nodes, e.source) /\ GraphHasNode(nodes, e.target))
                  => e \in GetGraphEdges

\* C7: every node held by the store has a non-empty id, a non-empty label
\* and a valid type.
C7_StoreHoldsValidNodes == \A n \in GetGraphNodes : ValidateNode(n)

(***************************************************************************)
(* Claims about the remote operation bridge.                               *)
(***************************************************************************)

\* C8: once a channel has disconnected (its socket emitted close, possibly
\* after an error event), no request of its pendingRequests is still pending.
C8_DisconnectRejectsPending ==
    \A s \in Sockets :
        sock[s] = "closed" =>
            \A k \in DOMAIN pending[s] : reqs[pending[s][k]].outcome # "pending"

\* C9: every issued request is eventually settled, its promise is resolved or
\* rejected by exactly one call, and once settled its outcome never changes.
C9_SettledExactlyOnce ==
    /\ [](\A r \in 1..Len(reqs) :
            /\ reqs[r].calls <= 1
            /\ (reqs[r].outcome = "pending") <=> (reqs[r].calls = 0))
    /\ [][\A r \in 1..Len(reqs) :
            reqs[r].outcome # "pending" =>
                /\ reqs'[r].outcome = reqs[r].outcome
                /\ reqs'[r].value = reqs[r].value]_vars
    /\ \A r \in 1..MaxRequests :
            (Len(reqs) >= r) ~> (Len(reqs) >= r /\ reqs[r].outcome # "pending")

\* one request was resolved by its response, another was rejected by its timer
C9_Witness ==
    \E r1, r2 \in 1..Len(reqs) :
        /\ reqs[r1].outcome = "resolved"
        /\ reqs[r1].timer = "cleared"
        /\ reqs[r2].outcome = "rejected"
        /\ reqs[r2].timer = "fired"

\* C10: a request is resolved only with the data of the response the remote
\* side produced for that same request.
C10_ResolvedWithOwnResponse ==
    \A r \in 1..Len(reqs) :
        reqs[r].outcome = "resolved" => reqs[r].value.data = r

\* a step in which the server handles the next inbound message of socket s
C11_Handles(s) ==
    /\ toServer[s] # <<>>
    /\ toServer'[s] = Tail(toServer[s])
    /\ sock' = sock

\* C11: an inbound response settles a request only through a pending entry
\* with its requestId on the channel it arrived on, and then touches nothing
\* else; a response that matches no entry of that channel changes no pending
\* entry and no request on any channel.
C11_UnmatchedResponseDropped ==
    [][/\ \A s \in Sockets :
            C11_Handles(s) =>
                LET requestId == Head(toServer[s]).requestId IN
                IF requestId \in DOMAIN pending[s]
                THEN /\ \A t \in Sockets \ {s} : pending'[t] = pending[t]
                     /\ pending'[s] = PendingDelete(pending[s], requestId)
                     /\ \A r \in 1..Len(reqs) :
                            reqs'[r] # reqs[r] => r = pending[s][requestId]
                ELSE pending' = pending /\ reqs' = reqs
       /\ \A r \in 1..Len(reqs) :
            (reqs[r].outcome = "pending" /\ reqs'[r].outcome = "resolved") =>
                \E s \in Sockets :
                    /\ C11_Handles(s)
                    /\ Head(toServer[s]).requestId \in DOMAIN pending[s]
                    /\ pending[s][Head(toServer[s]).requestId] = r
      ]_vars

\* a request timed out on a socket that is still open and has answered and
\* delivered everything (so its late response was received and dropped),
\* while a request with the same requestId is pending on the other channel
C11_Witness ==
    \E r1, r2 \in 1..Len(reqs) :
        /\ reqs[r2].chan \in Sockets
        /\ sock[reqs[r2].chan] = "open"
        /\ toClient[reqs[r2].chan] = <<>>
        /\ toServer[reqs[r2].chan] = <<>>
        /\ reqs[r2].timer = "fired"
        /\ reqs[r1].chan \in Sockets \ {reqs[r2].chan}
        /\ reqs[r1].id = reqs[r2].id
        /\ reqs[r1].outcome = "pending"
        /\ reqs[r1].id \in DOMAIN pending[reqs[r1].chan]

\* C12: a timer that fires rejects its request with the timeout error and
\* removes the request's entry from the channel's map; when the response
\* produced for a pending request is received on its channel first, the
\* request's timer is cancelled, and a cancelled timer stays cancelled; a
\* request whose timeout has passed does not stay pending.
C12_TimeoutRejectsAndEvicts ==
    /\ [][\A r \in 1..Len(reqs) :
            (reqs[r].timer = "armed" /\ reqs'[r].timer = "fired") =>
                /\ now >= reqs[r].deadline
                /\ reqs'[r].outcome = "rejected"
                /\ reqs'[r].value = Error("Request timeout")
                /\ reqs[r].id \notin DOMAIN pending'[reqs[r].chan]]_vars
    /\ [][\A s \in Sockets :
            (C11_Handles(s) /\ Head(toServer[s]).type = "response") =>
                LET r == Head(toServer[s]).data IN
                (reqs[r].outcome = "pending" /\ reqs[r].chan = s) =>
                    /\ reqs'[r].outcome = "resolved"
                    /\ reqs'[r].timer = "cleared"]_vars
    /\ [][\A r \in 1..Len(reqs) :
            reqs[r].timer = "cleared" => reqs'[r].timer = "cleared"]_vars
    /\ \A r \in 1..MaxRequests :
            (Len(reqs) >= r /\ reqs[r].outcome = "pending" /\ now >= reqs[r].deadline)
                ~> (Len(reqs) >= r /\ reqs[r].outcome # "pending")

\* the registered channels and, of them, the one that connected first
\* (sockets are numbered in the order in which they connect)
C13_Registered == {clients[i] : i \in 1..Len(clients)}
C13_First == CHOOSE s \in C13_Registered : \A t \in C13_Registered : s <= t

\* the request issued in this step went to channel s and to no other
C13_SentOnlyTo(s) ==
    LET r == Len(reqs) + 1 IN
    /\ reqs'[r].chan = s
    /\ reqs'[r].outcome = "pending"
    /\ toClient' = [toClient EXCEPT ![s] =
           Append(@, [type |-> "operation", requestId |-> reqs'[r].id, req |-> r])]
    /\ reqs'[r].id \in DOMAIN pending'[s]
    /\ pending'[s][reqs'[r].id] = r
    /\ \A t \in Sockets \ {s} : pending'[t] = pending[t]

\* the request issued in this step was rejected at once: nothing was sent
\* and no pending entry was created
C13_Refused ==
    /\ reqs'[Len(reqs) + 1].outcome = "rejected"
    /\ toClient' = toClient
    /\ pending' = pending

\* C13 as stated: every request issued while some channel is registered is
\* sent to exactly one channel, the earliest-connected registered one, and
\* has its pending entry only there; with no channel registered it is
\* rejected at once and leaves no pending entry.
C13_RoutedToFirstChannel ==
    [][Len(reqs') = Len(reqs) + 1 =>
          IF C13_Registered = {} THEN C13_Refused ELSE C13_SentOnlyTo(C13_First)]_vars

\* C13 amended: a request is sent to the earliest-connected registered
\* channel and to no other when that channel's socket is open; when it is
\* not open, or no channel is registered, the request is rejected at once,
\* nothing is sent to any channel and no pending entry is created.
C13_RoutedToFirstOpenOrRefused ==
    [][Len(reqs') = Len(reqs) + 1 =>
          IF C13_Registered = {} THEN C13_Refused
          ELSE IF sock[C13_First] = "open" THEN C13_SentOnlyTo(C13_First)
          ELSE C13_Refused]_vars

\* one request was refused because the first channel was not ready, and a
\* later one is pending on the second channel, the first being deregistered
C13_Witness ==
    \E r1, r2 \in 1..Len(reqs) :
        /\ reqs[r1].chan = 1
        /\ reqs[r1].value = Error("WebSocket not ready")
        /\ reqs[r2].chan = 2
        /\ reqs[r2].outcome = "pending"
        /\ reqs[r2].id \in DOMAIN pending[2]
        /\ toClient[1] = <<>>

\* C14: no mutation or import entry point of the engine throws; every
\* failure is reported as data.
C14_NoEntryPointThrows == result.status # "threw"

\* the value a node has for a field (undefined for a field it does not have)
C15_Field(node, f) ==
    IF f \in DOMAIN node THEN node[f] ELSE IF f = "type" THEN "undefined" ELSE Undefined

C15_SameNode(n1, n2) ==
    \A f \in DOMAIN n1 \cup DOMAIN n2 : C15_Field(n1, f) = C15_Field(n2, f)

\* C15: importFromJSON(exportToJSON()) leaves the graph with the same set of
\* nodes, with all their fields, and the same set of edges.
C15_RoundTripKeepsGraph ==
    [][result'.op = "importFromJSON" =>
          /\ \A k \in DOMAIN nodes : \E j \in DOMAIN nodes' : C15_SameNode(nodes[k], nodes'[j])
          /\ \A j \in DOMAIN nodes' : \E k \in DOMAIN nodes : C15_SameNode(nodes[k], nodes'[j])
          /\ {edges'[k] : k \in DOMAIN edges'} = GetGraphEdges
      ]_vars

\* the four ids of the call are pairwise distinct, not in the graph N, and
\* every id and label is a non-blank string
C16_Fresh(N, params) ==
    LET ids == {params.actorId, params.commandId, params.aggregateId, params.eventId} IN
    /\ Cardinality(ids) = 4
    /\ \A id \in ids : ~GraphHasNode(N, id) /\ Trim(id) # Empty
    /\ \A k \in DOMAIN N : N[k].id \notin ids
    /\ \A l \in {params.actorLabel, params.commandLabel, params.aggregateLabel,
                  params.eventLabel} : Trim(l) # Empty

\* C16: createCommandFlow with four fresh ids and non-empty labels adds
\* exactly the four nodes and the three edges (issues, on, then), changes
\* nothing else and returns isValid=true.
C16_FlowAddsFourAndThree ==
    [][(result'.op = "createCommandFlow" /\ C16_Fresh(nodes, result'.arg)) =>
          LET params == result'.arg
              new == FlowNodes(params) IN
          /\ result'.status = "ok"
          /\ DOMAIN nodes' = DOMAIN nodes \cup {new[i].id : i \in 1..4}
          /\ \A k \in DOMAIN nodes : nodes'[k] = nodes[k]
          /\ \A i \in 1..4 : nodes'[new[i].id] = new[i]
          /\ {edges'[k] : k \in DOMAIN edges'}
                = GetGraphEdges \cup {FlowEdges(params)[i] : i \in 1..3}
          /\ Cardinality(DOMAIN edges') = Cardinality(DOMAIN edges) + 3
          /\ \A k \in DOMAIN edges : k \in DOMAIN edges' /\ edges'[k] = edges[k]
      ]_vars

\* the command nodes of getGraph() that are the source of no 'then' edge
C17_Eventless(N, E) ==
    {n \in {N[k] : k \in DOMAIN N} :
        n.type = "command" /\ ~\E k \in DOMAIN E : E[k].source = n.id /\ E[k].label = Then}

RECURSIVE ReachableFrom(_, _)
ReachableFrom(E, S) ==
    LET next == S \cup UNION {GraphOutNeighbors(E, k) : k \in S} IN
    IF next = S THEN S ELSE ReachableFrom(E, next)

C18_HasCycle(E) ==
    \E k \in {E[x].source : x \in DOMAIN E} : k \in ReachableFrom(E, GraphOutNeighbors(E, k))

\* the sequence starts and ends with the same node, repeats no other node,
\* and each consecutive pair is a stored edge in that direction
C18_GenuineCycle(E, c) ==
    /\ Len(c) >= 2
    /\ c[1] = c[Len(c)]
    /\ \A i, j \in 1..(Len(c) - 1) : i # j => c[i] # c[j]
    /\ \A i \in 1..(Len(c) - 1) : c[i + 1] \in GraphOutNeighbors(E, c[i])

\* the graph whose edges are c1 -> e1 -> c2 -> e2 -> c1 and no other
C18_Ring(E) ==
    /\ Cardinality(DOMAIN E) = 4
    /\ GraphLinked(E, IdC1, IdE1) /\ GraphLinked(E, IdE1, IdC2)
    /\ GraphLinked(E, IdC2, IdE2) /\ GraphLinked(E, IdE2, IdC1)

\* C18: detectCycles returns a non-empty list exactly when the stored graph
\* has a directed cycle, whatever the iteration order, and every sequence
\* it returns is a genuine cycle; for c1 -> e1 -> c2 -> e2 -> c1 it returns
\* a cycle whose node set is {c1, e1, c2, e2}.
C18_CyclesFoundAndGenuine ==
    result.op = "detectCycles" =>
        LET cycles == result.arg IN
        /\ (cycles # <<>>) <=> C18_HasCycle(edges)
        /\ \A i \in 1..Len(cycles) : C18_GenuineCycle(edges, cycles[i])
        /\ C18_Ring(edges) => \E i \in 1..Len(cycles) :
                    {cycles[i][j] : j \in 1..Len(cycles[i])} = AnalysisKeys

\* detectCycles ran on the ring c1 -> e1 -> c2 -> e2 -> c1 and returned one cycle
C18_RingWitness ==
    /\ result.op = "detectCycles"
    /\ C18_Ring(edges)
    /\ Len(result.arg) = 1

\* the set of the elements of a sequence
C19_Elements(seq) == {seq[i] : i \in 1..Len(seq)}

\* C19: for an existing node n, directImpact is exactly the set of n's
\* out-neighbours, indirectImpact is exactly the set of the nodes that are
\* forward-reachable from those out-neighbours minus the direct set, the two
\* are disjoint, and totalReach is the size of their union; also when n
\* lies on a directed cycle.
C19_ImpactIsForwardReach ==
    (result.op = "getImpactAnalysis" /\ GraphHasNode(nodes, result.arg.nodeId)) =>
        LET returned == result.arg.returned
            direct == C19_Elements(returned.directImpact)
            indirect == C19_Elements(returned.indirectImpact)
            neighbours == GraphOutNeighbors(edges, result.arg.nodeId) IN
        /\ direct = {nodes[k] : k \in neighbours}
        /\ indirect = {nodes[k] : k \in ReachableFrom(edges, neighbours) \ neighbours}
        /\ direct \cap indirect = {}
        /\ returned.totalReach = Cardinality(direct \cup indirect)

\* the simple directed paths of the graph E from source to target that have
\* at most n nodes, built edge by edge from the source
RECURSIVE C20_Extend(_, _, _)
C20_Extend(E, S, n) ==
    IF n <= 1 THEN S
    ELSE LET longer == {Append(p, k) : p \in S, k \in DOMAIN nodes} IN
         S \cup C20_Extend(E, {p \in longer :
                                  /\ p[Len(p)] \in GraphOutNeighbors(E, p[Len(p) - 1])
                                  /\ \A i \in 1..(Len(p) - 1) : p[i] # p[Len(p)]}, n - 1)

C20_SimplePaths(E, source, target, n) ==
    IF n < 1 THEN {}
    ELSE {p \in C20_Extend(E, {<<source>>}, n) : p[Len(p)] = target}

\* C20: for existing source and target, findAllPaths(source, target,
\* maxLength) returns exactly the simple directed paths from source to target
\* that have at most maxLength + 1 nodes: each returned sequence is one,
\* none is missing and none is returned twice.
C20_AllSimplePathsOnce ==
    (/\ result.op = "findAllPaths"
     /\ GraphHasNode(nodes, result.arg.sourceId)
     /\ GraphHasNode(nodes, result.arg.targetId)) =>
        LET paths == result.arg.returned IN
        /\ {paths[i] : i \in 1..Len(paths)}
              = C20_SimplePaths(edges, result.arg.sourceId, result.arg.targetId,
                                result.arg.maxLength + 1)
        /\ \A i, j \in 1..Len(paths) : i # j => paths[i] # paths[j]

\* findAllPaths returned one path between two distinct nodes that two simple
\* paths join: maxLength cut the longer one
C20_BoundedWitness ==
    /\ result.op = "findAllPaths"
    /\ result.arg.sourceId # result.arg.targetId
    /\ Len(result.arg.returned) = 1
    /\ Cardinality(C20_SimplePaths(edges, result.arg.sourceId, result.arg.targetId,
                                   Cardinality(DOMAIN nodes))) = 2

\* the pathType that the claim gives a path ending in the event stored under
\* key k
C21_Expected(k) ==
    IF \E x \in DOMAIN edges : edges[x].source = k /\ edges[x].label = ThenPolicy
    THEN "POLICY_PATH"
    ELSE IF Includes(ToLowerCase(nodes[k].label), WordError)
            \/ Includes(ToLowerCase(nodes[k].label), WordFailed)
         THEN "ERROR_PATH"
         ELSE "HAPPY_PATH"

\* C21: in getCommandExecutionPaths every path that ends in event E is a
\* POLICY_PATH when E has an outgoing 'then (policy)' edge, whatever its
\* label; an ERROR_PATH only when E has none and its label contains 'error'
\* or 'failed' in any case; a HAPPY_PATH otherwise.
C21_PolicyOverridesError ==
    result.op = "getCommandExecutionPaths" =>
        LET paths == result.arg.returned.paths IN
        \A i \in 1..Len(paths) :
            paths[i].pathType = C21_Expected(paths[i].pathIds[Len(paths[i].pathIds)])

\* detectCircularDependencies reports a cycle on the stored graph
C22_CycleReported ==
    \E nodeOrder \in Orders(DOMAIN nodes), out \in NeighborOrders(nodes, edges) :
        DetectCyclesOf(nodeOrder, out) # <<>>

\* C22: the result of validateEventStormingMethodology folds in cycle
\* detection: on a graph in which detectCircularDependencies reports a cycle
\* it holds at least one violation or warning record.
C22_MethodologyReportsCycles ==
    result.op = "validateEventStormingMethodology" =>
        \/ Len(result.arg.violations) + Len(result.arg.warnings) > 0
        \/ ~C22_CycleReported

\* the number of places of the list that hold x
C23_Count(list, x) == Cardinality({i \in 1..Len(list) : list[i] = x})

\* C23: getAggregateView(a) returns null exactly when a is not the id of an
\* aggregate node; otherwise allCommands is the set of the in-neighbours of a
\* via 'on', allEvents holds each event that one of those commands produces
\* via 'then' exactly once, and viewModels holds each view model that
\* supports a decision for one of those commands exactly once.
C23_AggregateViewIsDeduplicated ==
    result.op = "getAggregateView" =>
        LET a == result.arg.aggregateId
            view == result.arg.returned
            isAggregate == GraphHasNode(nodes, a) /\ nodes[a].type = "aggregate" IN
        /\ view.null <=> ~isAggregate
        /\ isAggregate =>
              LET commands == {k \in DOMAIN nodes :
                                  \E x \in DOMAIN edges :
                                      /\ edges[x].source = k /\ edges[x].target = a
                                      /\ edges[x].label = On}
                  events == {k \in DOMAIN nodes :
                                \E x \in DOMAIN edges :
                                    /\ edges[x].source \in commands /\ edges[x].target = k
                                    /\ edges[x].label = Then}
                  models == {k \in DOMAIN nodes :
                                \E x \in DOMAIN edges :
                                    /\ edges[x].target \in commands /\ edges[x].source = k
                                    /\ edges[x].label = SupportsDecisionFor} IN
              /\ C19_Elements(view.allCommands) = {nodes[k] : k \in commands}
              /\ C19_Elements(view.allEvents) = {nodes[k] : k \in events}
              /\ \A k \in events : C23_Count(view.allEvents, nodes[k]) = 1
              /\ C19_Elements(view.viewModels) = {nodes[k] : k \in models}
              /\ \A k \in models : C23_Count(view.viewModels, nodes[k]) = 1

\* every character of the string is white space (the empty string too)
C24_BlankString(str) == \A i \in 1..Len(str) : str[i] = " "

C24_Rejected(node) ==
    \/ C24_BlankString(node.id)
    \/ C24_BlankString(node.label)
    \/ node.type \notin {"actor", "command", "aggregate", "event", "viewmodel",
                          "preconditions", "guards", "branchinglogic"}

C25_CompoundAllOrNothing ==
    [][(/\ result'.op \in {"createCommandFlow", "addCommandGuards",
                           "addCommandPreconditions"}
        /\ result'.status = "invalid")
          => (nodes' = nodes /\ edges' = edges)]_vars

\* C26: after any sequence of addNode, updateNode, updateNodeExtendedFields
\* and removeNode, the node stored under key k has the id k, so that
\* getNode(k).id = k and no two nodes of getGraph() have the same id; also
\* when the partial given to updateNode holds an id.
C26_IdIsKey ==
    /\ \A k \in DOMAIN nodes : nodes[k].id = k
    /\ \A k1, k2 \in DOMAIN nodes : k1 # k2 => nodes[k1].id # nodes[k2].id

\* C27: when importFromJSON returns isValid=false (text that does not parse,
\* a missing nodes or edges array, a load that fails) the graph is the graph
\* from before the call.
C27_FailedImportKeepsGraph ==
    [][(result'.op = "importFromJSON" /\ result'.status = "invalid")
          => (nodes' = nodes /\ edges' = edges)]_vars

\* C28: after every call of a graphOperations function the value last
\* published to the subscribers of graphData is the engine's getGraph()
C28_PublishedIsCurrent == graphData = GetGraph

\* C29: validateGraph and validateEventStormingMethodology agree on every
\* graph the engine holds: the same isValid, as many errors about commands
\* as violations, and in both one 'not generated by any command' warning for
\* each event that no 'then' edge enters
C29_ValidatorsAgree ==
    \A nodeOrder \in Orders(DOMAIN nodes) :
        LET graph == ValidateGraph(nodes, edges)
            methodology == ValidateEventStormingMethodologyOf(nodes, edges, nodeOrder)
            noThenIn == {v \in DOMAIN nodes : /\ nodes[v].type = "event"
                                              /\ InDegreeByLabel(edges, v, Then) = 0} IN
        /\ graph.isValid = methodology.isValid
        /\ Cardinality(ValidateGraphEventless(nodes, edges)) = Len(methodology.violations)
        /\ Cardinality(ValidateGraphUnproduced(nodes, edges)) = Cardinality(noThenIn)
        /\ Len(methodology.warnings) = Cardinality(noThenIn)

\* C30: once disconnect() has been called the client makes no further
\* connection; it begins at most maxReconnectAttempts reconnections without an
\* open event in between, and an open event sets reconnectAttempts to 0
C30_NewConnection == Len(wsClient'.sockets) > Len(wsClient.sockets)
C30_Opened == \E s \in 1..Len(wsClient.sockets) :
                  wsClient.sockets[s] = "connecting" /\ wsClient'.sockets[s] = "open"
C30_NoReconnectAfterDisconnect ==
    [][/\ wsClient.disconnected => ~C30_NewConnection
       /\ wsClient'.unopened <= MaxReconnectAttempts
       /\ C30_Opened => wsClient'.reconnectAttempts = 0]_vars

====
